---- MODULE Spec2Model ----
(***************************************************************************)
(* A model of grok-cli's model transport (src/grok/client.ts) and of the   *)
(* agent tool-calling loop (src/agent/grok-agent.ts).                      *)
(*                                                                         *)
(* Three specifications share the module:                                  *)
(*   SpecClassify  classifyError applied to bounded raw errors             *)
(*   SpecClient    GrokClient.chat / chatStream / search, called directly  *)
(*   SpecAgent     GrokAgent.processUserMessage driving GrokClient.chat    *)
(*                                                                         *)
(* Texts are sequences of phrases: String.includes(p) is "p is one of the  *)
(* phrases".  An optional value (T | null | undefined) is a sequence of    *)
(* length at most one.                                                     *)
(***************************************************************************)
EXTENDS Integers, Sequences, FiniteSets, TLC

VARIABLES
    rawError,      \* classifier: the raw error handed to classifyError
    info,          \* classifier: the ApiErrorInfo it returned (option)
    entry,         \* client: entry point in flight: "none", "chat", "chatStream", "search"
    cpc,           \* client: position in the retry loop
    tools,         \* client: the tool declarations of the call
    attempt,       \* client: the loop variable `attempt`
    lastError,     \* client: the variable `lastError` (option)
    attempts,      \* client: how many times the try block was entered in this call
    sleeps,        \* client: the delays slept in this call, in order
    errs,          \* client: the raw errors caught in this call, in order
    yielded,       \* client: chunks chatStream has yielded to its consumer in this call
    outcome,       \* client: how the call ended: a response or an escaped error (option)
    searchOptions, \* client: the parameter `searchOptions` of the call: its mode (option)
    logged,        \* logger: the lines appended to the log since the call in flight began
    GROK_DEBUG,    \* logger: process.env.GROK_DEBUG (option)
    loggerCalls,   \* logger: the methods called on it from outside the client, in order
    currentDirectory, \* tools: currentDirectory of the bash, search, glob and grep tools
    messages,      \* agent: this.messages
    chatHistory,   \* agent: this.chatHistory
    apc,           \* agent: position in processUserMessage
    toolRounds,    \* agent: the local `toolRounds`
    currentResponse, \* agent: the local `currentResponse` (option)
    pending,       \* agent: tool calls of the round not yet executed
    escaped,       \* agent: the error that escaped the call in flight (option)
    modelCalls,    \* agent: chat / chatStream calls issued by the call in flight
    abortController, \* agent: this.abortController: null, or its signal.aborted (option)
    abortedAt,     \* agent: where the call in flight was when abort() was called, or ""
    currentModel,  \* client: this.currentModel
    events,        \* agent: what processUserMessageStream has yielded in this call
    accumulatedContent,   \* agent: the local `accumulatedContent`
    accumulatedToolCalls, \* agent: the local `accumulatedToolCalls`
    consumed,      \* agent: chunks of the stream the for await loop has taken
    givenCall,     \* dispatcher: the tool call handed to executeTool
    toolOutcome,   \* dispatcher: how executeTool ended (option)
    toolMessage,   \* dispatcher: buildToolResultMessage of its result (option)
    mcpReply,      \* dispatcher: what mcpManager.callTool answered (option)
    sessionFlags,  \* confirmation service: the session's bashCommands and allOperations flags
    bashCalls,     \* bash tool: what each call of execute was given and did
    replies,       \* comparison of the modes: the model's replies, one per model call
    bufferedMessages, \* comparison of the modes: the history the buffered run left (option)
    maxToolRounds  \* agent: this.maxToolRounds

classifyVars == <<rawError, info>>
dispatchVars == <<givenCall, toolOutcome, toolMessage, mcpReply>>
loggerVars == <<GROK_DEBUG, loggerCalls>>
bashVars == <<sessionFlags, bashCalls>>
modeVars == <<replies, bufferedMessages>>
limitVars == <<maxToolRounds>>
unitVars == <<rawError, info, givenCall, toolOutcome, toolMessage, mcpReply, GROK_DEBUG,
              loggerCalls, currentDirectory, sessionFlags, bashCalls, replies,
              bufferedMessages, maxToolRounds>>
clientVars == <<entry, cpc, tools, attempt, lastError, attempts, errs, sleeps, yielded, outcome,
                searchOptions, logged>>
streamVars == <<abortController, abortedAt, currentModel, events, accumulatedContent,
                accumulatedToolCalls, consumed>>
agentVars == <<messages, chatHistory, apc, toolRounds, currentResponse, pending, escaped,
               modelCalls, abortController, abortedAt, currentModel, events,
               accumulatedContent, accumulatedToolCalls, consumed>>
vars == <<rawError, info, entry, cpc, tools, attempt, lastError, attempts, errs, sleeps,
          yielded, outcome, messages, chatHistory, apc, toolRounds, currentResponse,
          pending, escaped, modelCalls, abortController, abortedAt, currentModel, events,
          accumulatedContent, accumulatedToolCalls, consumed, givenCall, toolOutcome,
          toolMessage, mcpReply, searchOptions, logged, GROK_DEBUG, loggerCalls,
          currentDirectory, sessionFlags, bashCalls, replies, bufferedMessages,
          maxToolRounds>>

(***************************************************************************)
(* Optional values and texts                                               *)
(***************************************************************************)
None == <<>>
Some(x) == <<x>>
IsSome(o) == o # <<>>
Get(o) == o[1]

\* a ?? b ?? c
Coalesce3(a, b, c) == IF IsSome(a) THEN a ELSE IF IsSome(b) THEN b ELSE c

\* String.prototype.includes on a text
Includes(text, phrase) == \E i \in 1..Len(text) : text[i] = phrase

\* an absent string-valued field (error.name, error.code)
Undefined == "undefined"

\* Longest raw error message, in phrases
MaxMsgPhrases == 2

RECURSIVE SeqsUpTo(_, _)
SeqsUpTo(S, n) ==
    IF n = 0 THEN {<<>>}
    ELSE LET shorter == SeqsUpTo(S, n - 1)
         IN shorter \cup {Append(s, x) : s \in {t \in shorter : Len(t) = n - 1}, x \in S}

\* the sequences of SeqsUpTo(S, n) that hold no element twice
DistinctSeqsUpTo(S, n) ==
    {s \in SeqsUpTo(S, n) : \A i, j \in 1..Len(s) : i # j => s[i] # s[j]}

(***************************************************************************)
(* Error Classifier: classifyError                                         *)
(***************************************************************************)
TimeoutMessage == <<"Request timed out. Please try again.">>
NetworkMessage == <<"Network error - could not reach the Grok API. Check your internet connection and base URL.">>
BadRequestMessage == <<"Bad request (400). Check your request parameters. This can also indicate an incorrect API key - verify your key at https://console.x.ai.">>
Auth401Message == <<"Authentication failed (401). Your API key is invalid or expired. Update it in ~/.grok/user-settings.json or set the GROK_API_KEY environment variable. Get a new key at https://console.x.ai.">>
Auth403Message == <<"Access denied (403). Your API key does not have permission, or your account may be blocked. Contact your team admin or check https://console.x.ai.">>
NotFoundMessage == <<"Not found (404). The specified model may not exist or the API endpoint URL is incorrect. Check the model name and API base URL.">>
RateLimitMessage == <<"Rate limited (429). Retrying automatically with backoff... To request higher limits, email support@x.ai.">>
ServerMessage(status) == <<"Grok API server error (", ToString(status), "). The service may be temporarily unavailable. Check https://status.x.ai for updates.">>
MalformedMessage == <<"Received a malformed response from the Grok API.">>

ApiErrorInfo(status, code, message, retryable) ==
    [status |-> status, code |-> code, message |-> message, retryable |-> retryable]

\* const msg = error?.message ?? String(error)
msgOf(error) == IF IsSome(error.message) THEN Get(error.message) ELSE error.str

\* the status read from error.status alone (a mutation of statusOf)
statusOfStatusOnly(error) == error.status

\* const status = error?.status ?? error?.statusCode ?? error?.response?.status ?? null
statusOf(error) == Coalesce3(error.status, error.statusCode, error.responseStatus)

isTimeout(error) ==
    \/ error.name = "AbortError"
    \/ error.code = "ECONNABORTED"
    \/ Includes(msgOf(error), "timeout")
    \/ Includes(msgOf(error), "Timeout")

isNetwork(error) ==
    \/ error.code = "ECONNREFUSED"
    \/ error.code = "ENOTFOUND"
    \/ error.code = "ECONNRESET"
    \/ Includes(msgOf(error), "fetch failed")
    \/ Includes(msgOf(error), "network")
    \/ Includes(msgOf(error), "bad port")
    \/ Includes(msgOf(error), "Cannot connect")

isMalformed(error) ==
    \/ Includes(msgOf(error), "JSON")
    \/ Includes(msgOf(error), "Unexpected token")
    \/ Includes(msgOf(error), "parse")

\* classifyError without the timeout rule (a mutation of classifyError)
classifyErrorNoTimeoutRule(error) ==
    LET msg == msgOf(error)
        status == statusOf(error)
    IN  IF isNetwork(error) THEN ApiErrorInfo(None, "network", NetworkMessage, TRUE)
        ELSE IF status = Some(400) THEN ApiErrorInfo(status, "bad_request", BadRequestMessage, FALSE)
        ELSE IF status = Some(401) THEN ApiErrorInfo(status, "auth", Auth401Message, FALSE)
        ELSE IF status = Some(403) THEN ApiErrorInfo(status, "auth", Auth403Message, FALSE)
        ELSE IF status = Some(404) THEN ApiErrorInfo(status, "not_found", NotFoundMessage, FALSE)
        ELSE IF status = Some(429) THEN ApiErrorInfo(status, "rate_limit", RateLimitMessage, TRUE)
        ELSE IF IsSome(status) /\ Get(status) >= 500
             THEN ApiErrorInfo(status, "server", ServerMessage(Get(status)), TRUE)
        ELSE IF isMalformed(error) THEN ApiErrorInfo(status, "malformed", MalformedMessage, TRUE)
        ELSE ApiErrorInfo(status, "unknown", msg, FALSE)

\* classifyError with the status rules tried before the network rule (a mutation)
classifyErrorStatusFirst(error) ==
    LET msg == msgOf(error)
        status == statusOf(error)
    IN  IF isTimeout(error) THEN ApiErrorInfo(None, "timeout", TimeoutMessage, TRUE)
        ELSE IF status = Some(400) THEN ApiErrorInfo(status, "bad_request", BadRequestMessage, FALSE)
        ELSE IF status = Some(401) THEN ApiErrorInfo(status, "auth", Auth401Message, FALSE)
        ELSE IF status = Some(403) THEN ApiErrorInfo(status, "auth", Auth403Message, FALSE)
        ELSE IF status = Some(404) THEN ApiErrorInfo(status, "not_found", NotFoundMessage, FALSE)
        ELSE IF status = Some(429) THEN ApiErrorInfo(status, "rate_limit", RateLimitMessage, TRUE)
        ELSE IF IsSome(status) /\ Get(status) >= 500
             THEN ApiErrorInfo(status, "server", ServerMessage(Get(status)), TRUE)
        ELSE IF isNetwork(error) THEN ApiErrorInfo(None, "network", NetworkMessage, TRUE)
        ELSE IF isMalformed(error) THEN ApiErrorInfo(status, "malformed", MalformedMessage, TRUE)
        ELSE ApiErrorInfo(status, "unknown", msg, FALSE)

\* classifyError with 404 filed under the retryable errors (a mutation)
classifyErrorRetry404(error) ==
    LET msg == msgOf(error)
        status == statusOf(error)
    IN  IF isTimeout(error) THEN ApiErrorInfo(None, "timeout", TimeoutMessage, TRUE)
        ELSE IF isNetwork(error) THEN ApiErrorInfo(None, "network", NetworkMessage, TRUE)
        ELSE IF status = Some(400) THEN ApiErrorInfo(status, "bad_request", BadRequestMessage, FALSE)
        ELSE IF status = Some(401) THEN ApiErrorInfo(status, "auth", Auth401Message, FALSE)
        ELSE IF status = Some(403) THEN ApiErrorInfo(status, "auth", Auth403Message, FALSE)
        ELSE IF status = Some(404) THEN ApiErrorInfo(status, "not_found", NotFoundMessage, TRUE)
        ELSE IF status = Some(429) THEN ApiErrorInfo(status, "rate_limit", RateLimitMessage, TRUE)
        ELSE IF IsSome(status) /\ Get(status) >= 500
             THEN ApiErrorInfo(status, "server", ServerMessage(Get(status)), TRUE)
        ELSE IF isMalformed(error) THEN ApiErrorInfo(status, "malformed", MalformedMessage, TRUE)
        ELSE ApiErrorInfo(status, "unknown", msg, FALSE)

classifyError(error) ==
    LET msg == msgOf(error)
        status == statusOf(error)
    IN  IF isTimeout(error) THEN ApiErrorInfo(None, "timeout", TimeoutMessage, TRUE)
        ELSE IF isNetwork(error) THEN ApiErrorInfo(None, "network", NetworkMessage, TRUE)
        ELSE IF status = Some(400) THEN ApiErrorInfo(status, "bad_request", BadRequestMessage, FALSE)
        ELSE IF status = Some(401) THEN ApiErrorInfo(status, "auth", Auth401Message, FALSE)
        ELSE IF status = Some(403) THEN ApiErrorInfo(status, "auth", Auth403Message, FALSE)
        ELSE IF status = Some(404) THEN ApiErrorInfo(status, "not_found", NotFoundMessage, FALSE)
        ELSE IF status = Some(429) THEN ApiErrorInfo(status, "rate_limit", RateLimitMessage, TRUE)
        ELSE IF IsSome(status) /\ Get(status) >= 500
             THEN ApiErrorInfo(status, "server", ServerMessage(Get(status)), TRUE)
        ELSE IF isMalformed(error) THEN ApiErrorInfo(status, "malformed", MalformedMessage, TRUE)
        ELSE ApiErrorInfo(status, "unknown", msg, FALSE)

(***************************************************************************)
(* Raw errors: what a catch clause of the client can receive.  An Error    *)
(* object exposes name, message and, depending on who threw it, code,      *)
(* status, statusCode or response.status; String(error) is `str`.          *)
(***************************************************************************)
Phrases == {"timeout", "Timeout", "fetch failed", "network", "bad port", "Cannot connect",
            "JSON", "Unexpected token", "parse", "other"}

ErrorNames == {"Error", "AbortError"}
ErrorCodes == {Undefined, "ECONNABORTED", "ECONNREFUSED", "ENOTFOUND", "ECONNRESET", "EPIPE"}
StatusValues == {400, 401, 403, 404, 422, 429, 500, 599, 600}

RawError(name, code, status, statusCode, responseStatus, message, str) ==
    [name |-> name, code |-> code, status |-> status, statusCode |-> statusCode,
     responseStatus |-> responseStatus, message |-> message, str |-> str]

\* The status fields a raw error can expose
StatusFields ==
    {<<s, sc, rs>> : s \in {None} \cup {Some(v) : v \in StatusValues},
                     sc \in {None, Some(503)}, rs \in {None, Some(404)}}

\* message and String(error): a message of up to MaxMsgPhrases phrases, or no message
\* and a one-phrase String(error)
ErrorTexts ==
    {<<Some(m), <<>>>> : m \in SeqsUpTo(Phrases, MaxMsgPhrases)}
    \cup {<<None, m>> : m \in SeqsUpTo(Phrases, 1)}

(***************************************************************************)
(* JSON.parse and JSON.stringify on the values the model exchanges          *)
(***************************************************************************)
EmptyObject == [json |-> "object", members |-> <<>>]
NullValue == [json |-> "null", members |-> <<>>]
CommandObject == [json |-> "object", members |-> <<<<"command", "ls">>>>]

StringValue(text) == [json |-> "string", members |-> <<text>>]

\* the texts a backend gives as a tool call's input when it is a string
InputTexts == {"not json", "{}"}

\* text |-> the value JSON.parse gives for it; any other text is a SyntaxError
JSONTexts ==
    {<<"{}", EmptyObject>>, <<" { } ", EmptyObject>>, <<"null", NullValue>>,
     <<"{\"command\":\"ls\"}", CommandObject>>}
    \cup {<<"\"" \o t \o "\"", StringValue(t)>> : t \in InputTexts}

ParsesAsJSON(text) == \E p \in JSONTexts : p[1] = text
JSONParse(text) == (CHOOSE p \in JSONTexts : p[1] = text)[2]

\* JSON.stringify of a value JSON.parse can give
JSONStringify(value) ==
    IF value.json = "string" THEN "\"" \o value.members[1] \o "\""
    ELSE IF value = NullValue THEN "null"
    ELSE IF value = EmptyObject THEN "{}"
    ELSE "{\"command\":\"ls\"}"

\* what JSON.parse throws: a SyntaxError whose message names JSON (the message is that
\* of the text "not json" for every text that does not parse)
SyntaxError ==
    RawError("SyntaxError", Undefined, None, None, None,
             Some(<<"Unexpected token", " 'o', \"not json\" is not valid ", "JSON">>), <<>>)

\* what JSON.stringify throws on a circular structure
CircularError ==
    RawError("TypeError", Undefined, None, None, None,
             Some(<<"Converting circular structure to ", "JSON">>), <<>>)

\* what reading a member of `args` throws when the argument text is "null"
NullArgsError ==
    RawError("TypeError", Undefined, None, None, None,
             Some(<<"Cannot read properties of null">>), <<>>)

\* what reading tool.function.name throws when a declaration has no function
DeclarationError ==
    RawError("TypeError", Undefined, None, None, None,
             Some(<<"Cannot read properties of undefined (reading 'name')">>), <<>>)

(***************************************************************************)
(* Model Transport: GrokClient                                             *)
(***************************************************************************)
MAX_RETRIES == 3
BASE_DELAY_MS == 1000
\* Math.random() * 500
JITTER_MS == 500
JitterSamples == {0, JITTER_MS - 1}

\* Chunks chatStream may yield in one call
MaxYield == 2

\* a tool declaration: a GrokTool, or a value without the function member
GoodTool(name) == [function |-> Some(name)]
BadTool == [function |-> None]

\* convertTools: throws on a declaration without function, else one entry per name
convertToolsThrows(decls) == \E i \in 1..Len(decls) : decls[i].function = None
convertTools(decls) == {Get(decls[i].function) : i \in 1..Len(decls)}

\* a tool call as the backend gives it: id and input may be absent
SdkToolCall(toolCallId, toolName, input) ==
    [toolCallId |-> toolCallId, toolName |-> toolName, input |-> input]
StringInput(text) == [type |-> "string", text |-> text, value |-> EmptyObject]
ObjectInput(value) == [type |-> "object", text |-> "", value |-> value]
UndefinedInput == [type |-> "undefined", text |-> "", value |-> EmptyObject]
CircularInput == [type |-> "circular", text |-> "", value |-> EmptyObject]

GrokToolCall(id, name, arguments) == [id |-> id, name |-> name, arguments |-> arguments]

\* typeof tc.input === 'string' ? tc.input : JSON.stringify(tc.input ?? {})
argumentsOf(input) ==
    IF input.type = "string" THEN input.text
    ELSE IF input.type = "undefined" THEN JSONStringify(EmptyObject)
    ELSE JSONStringify(input.value)

\* convertToolCalls; `now` is the value Date.now() returns during the call
convertToolCallsThrows(toolCalls) ==
    \E i \in 1..Len(toolCalls) : toolCalls[i].input.type = "circular"
convertToolCalls(toolCalls, now) ==
    [i \in 1..Len(toolCalls) |->
        GrokToolCall(IF IsSome(toolCalls[i].toolCallId) THEN Get(toolCalls[i].toolCallId)
                     ELSE "call_" \o ToString(now),
                     toolCalls[i].toolName,
                     argumentsOf(toolCalls[i].input))]

\* what generateText resolves to
SdkResponse(text, toolCalls) == [text |-> text, toolCalls |-> toolCalls]

\* the GrokResponse chat returns: choices[0].message
GrokResponse(sdk, now) ==
    [role |-> "assistant",
     content |-> IF sdk.text = "" THEN None ELSE Some(sdk.text),
     tool_calls |-> convertToolCalls(sdk.toolCalls, now)]

\* how a call ends
Returned(response) ==
    [kind |-> "response", info |-> None, error |-> None, response |-> Some(response)]
StreamDone == [kind |-> "return", info |-> None, error |-> None, response |-> None]
GrokApiError(i) ==
    [kind |-> "GrokApiError", info |-> Some(i), error |-> None, response |-> None]
RawThrow(e) == [kind |-> "raw", info |-> None, error |-> Some(e), response |-> None]

\* the catch clause rethrowing what it caught (a mutation of raise)
raiseRaw(i, error) == RawThrow(error)

\* throw new GrokApiError(info)
raise(i, error) == GrokApiError(i)

\* retrying one time fewer (a mutation of shouldRetry)
shouldRetryOneFewer(i, n) == i.retryable /\ n < MAX_RETRIES - 1

\* retrying whatever the classification (a mutation of shouldRetry)
shouldRetryAnyError(i, n) == n < MAX_RETRIES

\* info.retryable && attempt < MAX_RETRIES
shouldRetry(i, n) == i.retryable /\ n < MAX_RETRIES

\* a delay growing linearly with the attempt (a mutation of backoffDelay)
backoffDelayLinear(n, jitter) == BASE_DELAY_MS * (n + 1) + jitter

\* BASE_DELAY_MS * Math.pow(2, attempt) + Math.random() * 500
backoffDelay(n, jitter) == BASE_DELAY_MS * 2^n + jitter

\* isDebug(), always true (a mutation of isDebug)
isDebugAlways == TRUE

\* isDebug(): process.env.GROK_DEBUG === "1"
isDebug == GROK_DEBUG = Some("1")

\* appendLine(line): the line is appended to the log file (timestamps and bodies left out)
appendLine(log, line) == Append(log, line)

\* logger.error, logger.warn, logger.info, logger.debug
logError(log) == appendLine(log, "ERROR")
logWarn(log) == appendLine(log, "WARN")
logInfo(log) == IF isDebug THEN appendLine(log, "INFO") ELSE log
logDebug(log) == IF isDebug THEN appendLine(log, "DEBUG") ELSE log

\* logger.logApiRequest, logger.logApiResponse, logger.logApiError
logApiRequest(log) == IF ~isDebug THEN log ELSE appendLine(log, "DEBUG API_REQUEST")
logApiResponse(log) == IF ~isDebug THEN log ELSE appendLine(log, "DEBUG API_RESPONSE")
logApiError(log) == appendLine(log, "ERROR API_ERROR")

ClientIdle ==
    /\ entry = "none"
    /\ cpc = "idle"
    /\ tools = <<>>
    /\ attempt = 0
    /\ lastError = None
    /\ attempts = 0
    /\ errs = <<>>
    /\ sleeps = <<>>
    /\ yielded = <<>>
    /\ outcome = None
    /\ searchOptions = None
    /\ logged = <<>>
    /\ loggerCalls = <<>>

\* chat / chatStream up to the loop: logApiRequest(...); let lastError; attempt = 0
Enter(e, decls, options) ==
    /\ entry' = e
    /\ searchOptions' = options
    /\ logged' = logApiRequest(<<>>)
    /\ tools' = decls
    /\ attempt' = 0
    /\ lastError' = None
    /\ attempts' = 0
    /\ errs' = <<>>
    /\ sleeps' = <<>>
    /\ yielded' = <<>>
    /\ outcome' = None
    /\ cpc' = "try"

\* the catch clause of chat and chatStream, entered with `error`, the try block having
\* left the log as `log`
CatchAfter(log, error, Jitters) ==
    LET i == classifyError(error)
    IN  /\ lastError' = Some(error)
        /\ errs' = Append(errs, error)
        /\ IF shouldRetry(i, attempt)
           THEN \E jitter \in Jitters :
                    /\ logged' = logInfo(logError(logApiError(log)))
                    /\ sleeps' = Append(sleeps, backoffDelay(attempt, jitter))
                    /\ cpc' = "sleep"
                    /\ outcome' = outcome
           ELSE /\ logged' = logError(logApiError(log))
                /\ sleeps' = sleeps
                /\ cpc' = "done"
                /\ outcome' = Some(raise(i, error))
        /\ UNCHANGED <<entry, tools, attempt, searchOptions>>

\* the catch clause of chat and chatStream, entered with `error`
Catch(error, Jitters) == CatchAfter(logged, error, Jitters)

\* chat has returned or thrown to its caller: its locals are gone
Leave ==
    /\ entry' = "none"
    /\ cpc' = "idle"
    /\ tools' = <<>>
    /\ attempt' = 0
    /\ lastError' = None
    /\ attempts' = 0
    /\ errs' = <<>>
    /\ sleeps' = <<>>
    /\ yielded' = <<>>
    /\ outcome' = None
    /\ searchOptions' = None
    /\ logged' = logged

\* chat(messages, tools) called
ChatCall(ToolLists) ==
    /\ cpc \in {"idle", "done"}
    /\ \E decls \in ToolLists : Enter("chat", decls, None)
    /\ UNCHANGED <<unitVars, agentVars>>

\* search(query): return this.chat([searchMessage], [], undefined, searchOptions)
SearchCall ==
    /\ cpc \in {"idle", "done"}
    /\ Enter("search", <<>>, Some("on"))
    /\ UNCHANGED <<unitVars, agentVars>>

\* chatStream(messages, tools) called and first pulled
ChatStreamCall(ToolLists) ==
    /\ cpc \in {"idle", "done"}
    /\ \E decls \in ToolLists : Enter("chatStream", decls, None)
    /\ UNCHANGED <<unitVars, agentVars>>

\* try { convertTools(tools) throws
ConvertToolsThrows(Jitters) ==
    /\ cpc = "try"
    /\ convertToolsThrows(tools)
    /\ attempts' = attempts + 1
    /\ Catch(DeclarationError, Jitters)
    /\ UNCHANGED yielded
    /\ UNCHANGED <<unitVars, agentVars>>

\* try { ... await generateText(...) rejects
GenerateTextThrows(Errors, Jitters) ==
    /\ cpc = "try"
    /\ entry \in {"chat", "search"}
    /\ ~convertToolsThrows(tools)
    /\ attempts' = attempts + 1
    /\ \E error \in Errors : Catch(error, Jitters)
    /\ UNCHANGED yielded
    /\ UNCHANGED <<unitVars, agentVars>>

\* try { ... await generateText(...) resolves; return { choices: [...] }
GenerateTextReturns(Responses, Clock, Jitters) ==
    /\ cpc = "try"
    /\ entry \in {"chat", "search"}
    /\ ~convertToolsThrows(tools)
    /\ attempts' = attempts + 1
    /\ \E sdk \in Responses, now \in Clock :
          IF convertToolCallsThrows(sdk.toolCalls)
          THEN CatchAfter(logApiResponse(logged), CircularError, Jitters)
          ELSE /\ outcome' = Some(Returned(GrokResponse(sdk, now)))
               /\ cpc' = "done"
               /\ logged' = logApiResponse(logged)
               /\ UNCHANGED <<entry, tools, attempt, lastError, errs, sleeps, searchOptions>>
    /\ UNCHANGED yielded
    /\ UNCHANGED <<unitVars, agentVars>>

\* try { ... streamText(...); the for await loop is entered
StreamOpen ==
    /\ cpc = "try"
    /\ entry = "chatStream"
    /\ ~convertToolsThrows(tools)
    /\ attempts' = attempts + 1
    /\ cpc' = "stream"
    /\ UNCHANGED <<entry, tools, attempt, lastError, errs, sleeps, yielded, outcome,
                   searchOptions, logged>>
    /\ UNCHANGED <<unitVars, agentVars>>

TextDelta(text) == [type |-> "text-delta", text |-> text, call |-> None]
ToolCallChunk(call) == [type |-> "tool-call", text |-> "", call |-> Some(call)]
OtherChunk == [type |-> "finish", text |-> "", call |-> None]

\* what chatStream yields for a chunk
ContentDelta(text) == [content |-> Some(text), tool_calls |-> <<>>]
\* JSON.stringify(chunk.input): undefined for an undefined input
streamArgumentsOf(input) ==
    IF input.type = "string" THEN Some(JSONStringify(StringValue(input.text)))
    ELSE IF input.type = "undefined" THEN None
    ELSE Some(JSONStringify(input.value))
ToolCallDelta(call) ==
    [content |-> None,
     tool_calls |-> <<[id |-> call.toolCallId, name |-> call.toolName,
                       arguments |-> streamArgumentsOf(call.input)]>>]

\* for await (const chunk of stream.fullStream): one chunk arrives
StreamChunk(Chunks, Jitters) ==
    /\ cpc = "stream"
    /\ \E chunk \in Chunks :
          IF chunk.type = "text-delta"
          THEN /\ Len(yielded) < MaxYield
               /\ yielded' = Append(yielded, ContentDelta(chunk.text))
               /\ UNCHANGED <<entry, cpc, tools, attempt, lastError, errs, sleeps, outcome,
                              searchOptions, logged>>
          ELSE IF chunk.type = "tool-call"
          THEN IF Get(chunk.call).input.type = "circular"
               THEN /\ Catch(CircularError, Jitters)
                    /\ UNCHANGED yielded
               ELSE /\ Len(yielded) < MaxYield
                    /\ yielded' = Append(yielded, ToolCallDelta(Get(chunk.call)))
                    /\ UNCHANGED <<entry, cpc, tools, attempt, lastError, errs, sleeps,
                                   outcome, searchOptions, logged>>
          ELSE UNCHANGED <<entry, cpc, tools, attempt, lastError, errs, sleeps, yielded,
                           outcome, searchOptions, logged>>
    /\ UNCHANGED attempts
    /\ UNCHANGED <<unitVars, agentVars>>

\* the stream rejects while it is iterated
StreamThrows(Errors, Jitters) ==
    /\ cpc = "stream"
    /\ \E error \in Errors : Catch(error, Jitters)
    /\ UNCHANGED <<attempts, yielded>>
    /\ UNCHANGED <<unitVars, agentVars>>

\* the stream ends: return
StreamEnd ==
    /\ cpc = "stream"
    /\ cpc' = "done"
    /\ outcome' = Some(StreamDone)
    /\ logged' = logApiResponse(logged)
    /\ UNCHANGED <<entry, tools, attempt, lastError, attempts, errs, sleeps, yielded,
                   searchOptions>>
    /\ UNCHANGED <<unitVars, agentVars>>

\* a retry that takes back what the failed attempt had delivered (a mutation of
\* SleepDone)
SleepDoneDiscards ==
    /\ cpc = "sleep"
    /\ attempt' = attempt + 1
    /\ yielded' = <<>>
    /\ IF attempt + 1 <= MAX_RETRIES
       THEN cpc' = "try" /\ outcome' = outcome
       ELSE cpc' = "done" /\ outcome' = Some(GrokApiError(classifyError(Get(lastError))))
    /\ UNCHANGED <<entry, tools, lastError, attempts, errs, sleeps, searchOptions, logged>>
    /\ UNCHANGED <<unitVars, agentVars>>

\* await sleep(delay) resolves; continue: attempt++ and the loop test
SleepDone ==
    /\ cpc = "sleep"
    /\ attempt' = attempt + 1
    /\ IF attempt + 1 <= MAX_RETRIES
       THEN cpc' = "try" /\ outcome' = outcome
       ELSE cpc' = "done" /\ outcome' = Some(GrokApiError(classifyError(Get(lastError))))
    /\ UNCHANGED <<entry, tools, lastError, attempts, errs, sleeps, yielded, searchOptions,
                   logged>>
    /\ UNCHANGED <<unitVars, agentVars>>

(***************************************************************************)
(* Tool Dispatcher: executeTool                                            *)
(***************************************************************************)
\* ToolResult: output and error are optional
ToolResult(success, output, error) == [success |-> success, output |-> output, error |-> error]
Success(output) == ToolResult(TRUE, output, None)
Failure(error) == ToolResult(FALSE, None, error)

\* text || fallback
OrElse(text, fallback) == IF IsSome(text) /\ Get(text) # "" THEN Get(text) ELSE fallback

\* the case labels of executeTool's switch
BuiltinTools ==
    {"view_file", "write_file", "create_file", "str_replace_editor", "edit_file", "bash",
     "glob", "grep", "create_todo_list", "update_todo_list", "search"}

\* names for which toolCall.function.name.startsWith("mcp__") holds
McpToolNames == {"mcp__files__read"}

\* error.message, as one string
MessageText(error) ==
    LET m == msgOf(error)
        F[i \in 0..Len(m)] == IF i = 0 THEN "" ELSE F[i - 1] \o m[i]
    IN  F[Len(m)]

\* the content items of a remote tool server's reply: a text item has a text, a resource
\* item has none of its own
McpTextItem(text) == [type |-> "text", text |-> Some(text), uri |-> None]
McpResourceItem(uri) == [type |-> "resource", text |-> None, uri |-> Some(uri)]

\* what the map callback of executeMCPTool makes of an item
McpItemText(item) ==
    IF item.type = "text" THEN Get(item.text)
    ELSE IF item.type = "resource" THEN "Resource: " \o OrElse(item.uri, "Unknown")
    ELSE "[object Object]"

\* result.content.map(...).join("\n")
McpJoin(content) ==
    LET F[i \in 0..Len(content)] ==
            IF i = 0 THEN ""
            ELSE IF i = 1 THEN McpItemText(content[1])
            ELSE F[i - 1] \o "\n" \o McpItemText(content[i])
    IN  F[Len(content)]

\* how a call of executeTool or executeMCPTool ends: a ToolResult returned, or an
\* error thrown
ToolReturn(result) == [kind |-> "return", result |-> Some(result), error |-> None]
ToolThrow(error) == [kind |-> "throw", result |-> None, error |-> Some(error)]

\* (result.content[0] as any)?.text || "MCP tool error"
firstItemText(content) ==
    IF Len(content) > 0 /\ content[1].text \notin {None, Some("")}
    THEN Get(content[1].text)
    ELSE "MCP tool error"

\* executeMCPTool once mcpManager.callTool has answered `reply`
\* (a record with thrown set when callTool rejected)
executeMCPTool(call, reply) ==
    IF IsSome(reply.thrown)
    THEN Failure(Some("MCP tool execution error: " \o MessageText(Get(reply.thrown))))
    ELSE IF reply.isError
    THEN Failure(Some(firstItemText(reply.content)))
    ELSE Success(Some(OrElse(Some(McpJoin(reply.content)), "Success")))

\* the case labels that run although no collaborator is called: edit_file without
\* MORPH_API_KEY returns its own failure
MorphUnavailable ==
    Failure(Some("Morph Fast Apply not available. Please set MORPH_API_KEY environment variable to use this feature."))

\* a try block that looks at the name before it parses the arguments
\* (a mutation of executeToolTry)
executeToolTryNameFirst(call, Results, Thrown, McpReplies) ==
    IF call.name \notin BuiltinTools \cup McpToolNames
    THEN {ToolReturn(Failure(Some("Unknown tool: " \o call.name)))}
    ELSE IF ~ParsesAsJSON(call.arguments)
    THEN {ToolThrow(SyntaxError)}
    ELSE IF call.name \in BuiltinTools
    THEN IF JSONParse(call.arguments) = NullValue
         THEN {ToolThrow(NullArgsError)}
         ELSE {ToolReturn(r) : r \in Results} \cup {ToolThrow(e) : e \in Thrown}
              \cup (IF call.name = "edit_file" THEN {ToolReturn(MorphUnavailable)} ELSE {})
    ELSE {ToolReturn(executeMCPTool(call, reply)) : reply \in McpReplies}

\* The try block of executeTool: the ways it can end for a tool call, the collaborators
\* answering with one of Results (or throwing one of Thrown) and the remote server with
\* one of McpReplies
executeToolTry(call, Results, Thrown, McpReplies) ==
    IF ~ParsesAsJSON(call.arguments)
    THEN {ToolThrow(SyntaxError)}
    ELSE IF call.name \in BuiltinTools
    THEN IF JSONParse(call.arguments) = NullValue
         THEN {ToolThrow(NullArgsError)}
         ELSE {ToolReturn(r) : r \in Results} \cup {ToolThrow(e) : e \in Thrown}
              \cup (IF call.name = "edit_file" THEN {ToolReturn(MorphUnavailable)} ELSE {})
    ELSE IF call.name \in McpToolNames
    THEN {ToolReturn(executeMCPTool(call, reply)) : reply \in McpReplies}
    ELSE {ToolReturn(Failure(Some("Unknown tool: " \o call.name)))}

\* a catch clause that rethrows (a mutation of executeToolCatch)
executeToolCatchRethrows(error) == ToolThrow(error)

\* the catch clause of executeTool
executeToolCatch(error) ==
    ToolReturn(Failure(Some("Tool execution error: " \o MessageText(error))))

\* executeTool: the ways it can end
executeTool(call, Results, Thrown, McpReplies) ==
    {IF o.kind = "throw" THEN executeToolCatch(Get(o.error)) ELSE o :
        o \in executeToolTry(call, Results, Thrown, McpReplies)}

\* the tools that keep a current directory, and process.cwd() when they are constructed
DirectoryTools == {"bash", "search", "glob", "grep"}
StartDirectory == "/repo"

\* syncCurrentDirectory(): the bash tool's directory set on search, glob and grep
syncCurrentDirectory(dirs) == [t \in DirectoryTools |-> dirs.bash]

\* bash.execute(command): the directories it can leave the bash tool in, a cd leading
\* to one of Dirs and every other command leaving it where it is
bashExecute(dirs, Dirs) == {[dirs EXCEPT !.bash = d] : d \in {dirs.bash} \cup Dirs}

\* executeTool reaches the case label of `call`: its arguments parse, to something
\* whose properties can be read
ReachesCase(call) ==
    /\ ParsesAsJSON(call.arguments)
    /\ JSONParse(call.arguments) # NullValue

\* what executeTool can leave the tools' directories as: case "bash" runs the command
\* and resyncs, every other path leaves them alone
executeToolDirectories(call, dirs, Dirs) ==
    IF call.name = "bash" /\ ReachesCase(call)
    THEN {syncCurrentDirectory(after) : after \in bashExecute(dirs, Dirs)}
    ELSE {dirs}

(***************************************************************************)
(* Agent Loop: the search directive                                        *)
(***************************************************************************)
\* the characters of the texts the agent looks into: user messages and model names
Spellings == {
    <<"list the files",
      <<"l", "i", "s", "t", " ", "t", "h", "e", " ", "f", "i", "l", "e", "s">>>>,
    <<"Latest NEWS",
      <<"L", "a", "t", "e", "s", "t", " ", "N", "E", "W", "S">>>>,
    <<"in 2031",
      <<"i", "n", " ", "2", "0", "3", "1">>>>,
    <<"20x4",
      <<"2", "0", "x", "4">>>>,
    <<"grok-code-fast-1",
      <<"g", "r", "o", "k", "-", "c", "o", "d", "e", "-", "f", "a", "s", "t", "-", "1">>>>,
    <<"llama-3",
      <<"l", "l", "a", "m", "a", "-", "3">>>>,
    <<"Grok-3",
      <<"G", "r", "o", "k", "-", "3">>>>,
    <<"ls", <<"l", "s">>>>,
    <<"cd", <<"c", "d">>>>,
    <<"cd src", <<"c", "d", " ", "s", "r", "c">>>>}

\* a text as its sequence of characters
Characters(text) == (CHOOSE p \in Spellings : p[1] = text)[2]

\* the letters String.prototype.toLowerCase changes
LowerCase == {
    <<"A", "a">>, <<"B", "b">>, <<"C", "c">>, <<"D", "d">>, <<"E", "e">>, <<"F", "f">>,
    <<"G", "g">>, <<"H", "h">>, <<"I", "i">>, <<"J", "j">>, <<"K", "k">>, <<"L", "l">>,
    <<"M", "m">>, <<"N", "n">>, <<"O", "o">>, <<"P", "p">>, <<"Q", "q">>, <<"R", "r">>,
    <<"S", "s">>, <<"T", "t">>, <<"U", "u">>, <<"V", "v">>, <<"W", "w">>, <<"X", "x">>,
    <<"Y", "y">>, <<"Z", "z">>}

\* message.toLowerCase()
toLowerCase(chars) ==
    [i \in 1..Len(chars) |->
        IF \E p \in LowerCase : p[1] = chars[i]
        THEN (CHOOSE p \in LowerCase : p[1] = chars[i])[2]
        ELSE chars[i]]

\* q.includes(k)
includes(q, k) == \E i \in 1..(Len(q) - Len(k) + 1) : SubSeq(q, i, i + Len(k) - 1) = k

\* text.startsWith(prefix)
startsWith(chars, prefix) ==
    Len(chars) >= Len(prefix) /\ SubSeq(chars, 1, Len(prefix)) = prefix

Digits == {"0", "1", "2", "3", "4", "5", "6", "7", "8", "9"}

\* /(20\d{2})/.test(q)
hasYearPattern(q) ==
    \E i \in 1..(Len(q) - 3) :
        q[i] = "2" /\ q[i + 1] = "0" /\ q[i + 2] \in Digits /\ q[i + 3] \in Digits

\* const keywords = [...]
keywords == {
    <<"t", "o", "d", "a", "y">>,
    <<"l", "a", "t", "e", "s", "t">>,
    <<"n", "e", "w", "s">>,
    <<"t", "r", "e", "n", "d", "i", "n", "g">>,
    <<"b", "r", "e", "a", "k", "i", "n", "g">>,
    <<"c", "u", "r", "r", "e", "n", "t">>,
    <<"n", "o", "w">>,
    <<"r", "e", "c", "e", "n", "t">>,
    <<"x", ".", "c", "o", "m">>,
    <<"t", "w", "i", "t", "t", "e", "r">>,
    <<"t", "w", "e", "e", "t">>,
    <<"w", "h", "a", "t", " ", "h", "a", "p", "p", "e", "n", "e", "d">>,
    <<"a", "s", " ", "o", "f">>,
    <<"u", "p", "d", "a", "t", "e", " ", "o", "n">>,
    <<"r", "e", "l", "e", "a", "s", "e", " ", "n", "o", "t", "e", "s">>,
    <<"c", "h", "a", "n", "g", "e", "l", "o", "g">>,
    <<"p", "r", "i", "c", "e">>,
    <<"w", "e", "a", "t", "h", "e", "r">>}

\* a model test that accepts every model (a mutation of isGrokModel)
isGrokModelAlways(model) == TRUE

\* isGrokModel(): this.getCurrentModel().startsWith('grok')
isGrokModel(model) == startsWith(Characters(model), <<"g", "r", "o", "k">>)

\* shouldUseSearchFor(message)
shouldUseSearchFor(message) ==
    LET q == toLowerCase(Characters(message))
    IN  IF \E k \in keywords : includes(q, k) THEN TRUE
        ELSE IF hasYearPattern(q) THEN TRUE
        ELSE FALSE

\* getSearchOptions(message): the mode of the search directive, if one is attached
getSearchOptions(model, message) ==
    IF isGrokModel(model) /\ shouldUseSearchFor(message) THEN Some("auto") ELSE None

(***************************************************************************)
(* Shell tool: BashTool.execute                                            *)
(***************************************************************************)
\* what requestConfirmation resolves with: {confirmed, feedback?}
Confirmation(confirmed, feedback) == [confirmed |-> confirmed, feedback |-> feedback]

\* what one call of execute did: whether it asked for confirmation, what it ran
\* ("nothing", "chdir" or "spawn"), its result and the tool's directory afterwards
Executed(asked, ran, result, directory) ==
    [asked |-> asked, ran |-> ran, result |-> result, directory |-> directory]

\* an execute that runs the command whatever the confirmation said (a mutation of
\* execute)
executeUnconfirmed(command, flags, answer, directory, chdir, spawned) ==
    IF command = None \/ command = Some("")
    THEN Executed(FALSE, "nothing",
                  Failure(Some("No command provided. Please specify a command to execute.")),
                  directory)
    ELSE LET asked == ~flags.bashCommands /\ ~flags.allOperations
         IN  IF startsWith(Characters(Get(command)), <<"c", "d", " ">>)
             THEN IF IsSome(chdir)
                  THEN Executed(asked, "chdir",
                                Success(Some("Changed directory to: " \o Get(chdir))),
                                Get(chdir))
                  ELSE Executed(asked, "chdir",
                                Failure(Some("Cannot change directory: ENOENT")), directory)
             ELSE Executed(asked, "spawn", spawned, directory)

\* BashTool.execute(command), the tool being in `directory`: `answer` is what
\* requestConfirmation resolves with if it is asked, `chdir` where process.chdir leads
\* (None when it throws), `spawned` what spawnCommand resolves with
execute(command, flags, answer, directory, chdir, spawned) ==
    IF command = None \/ command = Some("")
    THEN Executed(FALSE, "nothing",
                  Failure(Some("No command provided. Please specify a command to execute.")),
                  directory)
    ELSE LET asked == ~flags.bashCommands /\ ~flags.allOperations
         IN  IF asked /\ ~answer.confirmed
             THEN Executed(TRUE, "nothing",
                           Failure(Some(OrElse(answer.feedback,
                                               "Command execution cancelled by user"))),
                           directory)
             ELSE IF startsWith(Characters(Get(command)), <<"c", "d", " ">>)
             THEN IF IsSome(chdir)
                  THEN Executed(asked, "chdir",
                                Success(Some("Changed directory to: " \o Get(chdir))),
                                Get(chdir))
                  ELSE Executed(asked, "chdir",
                                Failure(Some("Cannot change directory: ENOENT")), directory)
             ELSE Executed(asked, "spawn", spawned, directory)

(***************************************************************************)
(* Agent Loop: GrokAgent, buffered mode                                    *)
(***************************************************************************)
\* Rounds allowed per call (the constructor's maxToolRounds)
MaxRounds == 2
\* Tool calls in one model reply
MaxCalls == 2
\* A new user message is accepted while the history is shorter than this
MaxHistory == 2

\* this.maxToolRounds = maxToolRounds || 400, the argument an option
maxToolRoundsOr400(argument) ==
    IF argument = None \/ Get(argument) = 0 THEN 400 ELSE Get(argument)

TextMessage(role, text) == [role |-> role, text |-> Some(text), parts |-> None]
PartsMessage(role, parts) == [role |-> role, text |-> None, parts |-> Some(parts)]
TextPart(text) == [type |-> "text", text |-> text]
ToolCallPart(id, name, input) ==
    [type |-> "tool-call", toolCallId |-> id, toolName |-> name, input |-> input]
ToolResultPart(id, name, output) ==
    [type |-> "tool-result", toolCallId |-> id, toolName |-> name, output |-> output]

\* buildAssistantMessage: JSON.parse(tc.function.arguments) throws a SyntaxError
buildAssistantMessageThrows(responseMessage) ==
    \E i \in 1..Len(responseMessage.tool_calls) :
        ~ParsesAsJSON(responseMessage.tool_calls[i].arguments)

buildAssistantMessage(responseMessage) ==
    LET calls == responseMessage.tool_calls
    IN  IF Len(calls) = 0
        THEN TextMessage("assistant", OrElse(responseMessage.content, ""))
        ELSE PartsMessage("assistant",
                (IF OrElse(responseMessage.content, "") # ""
                 THEN <<TextPart(Get(responseMessage.content))>> ELSE <<>>)
                \o [i \in 1..Len(calls) |->
                        ToolCallPart(calls[i].id, calls[i].name,
                   JSONParse(calls[i].arguments))])

\* a tool message that names no call (a mutation of buildToolResultMessage)
buildToolResultMessageNoId(toolCall, result) ==
    PartsMessage("tool",
        <<ToolResultPart("", toolCall.name,
            IF result.success
            THEN [type |-> "text", value |-> OrElse(result.output, "Success")]
            ELSE [type |-> "error-text", value |-> OrElse(result.error, "Error")])>>)

\* the fallback texts of the chat entry used for the message
\* (a mutation of buildToolResultMessage)
buildToolResultMessageEntryText(toolCall, result) ==
    PartsMessage("tool",
        <<ToolResultPart(toolCall.id, toolCall.name,
            IF result.success
            THEN [type |-> "text", value |-> OrElse(result.output, "Success")]
            ELSE [type |-> "error-text", value |-> OrElse(result.error, "Error occurred")])>>)

\* buildToolResultMessage(toolCall, result)
buildToolResultMessage(toolCall, result) ==
    PartsMessage("tool",
        <<ToolResultPart(toolCall.id, toolCall.name,
            IF result.success
            THEN [type |-> "text", value |-> OrElse(result.output, "Success")]
            ELSE [type |-> "error-text", value |-> OrElse(result.error, "Error")])>>)

\* ChatEntry (timestamps left out)
AssistantEntry(content, toolCalls) ==
    [type |-> "assistant", content |-> content, toolCalls |-> toolCalls]
ToolResultEntry(toolCall, result) ==
    [type |-> "tool_result",
     content |-> IF result.success THEN OrElse(result.output, "Success")
                 ELSE OrElse(result.error, "Error occurred"),
     toolCall |-> toolCall, toolResult |-> result]
MaxRoundsNotice ==
    "\n\nMaximum tool execution rounds reached. Stopping to prevent infinite loops."

\* a list with one element replaced by the pushed one (a mutation of Push)
PushOverLast(list, item) == IF list = <<>> THEN <<item>> ELSE [list EXCEPT ![Len(list)] = item]

\* Array.prototype.push
Push(list, item) == Append(list, item)

\* await getAllGrokTools()
GrokTools == <<GoodTool("view_file"), GoodTool("bash")>>

\* the agent after construction: empty histories, no call in flight
LoopIdle ==
    /\ messages = <<>>
    /\ chatHistory = <<>>
    /\ apc = "idle"
    /\ toolRounds = 0
    /\ currentResponse = None
    /\ pending = <<>>
    /\ escaped = None
    /\ modelCalls = 0
    /\ abortController = None
    /\ abortedAt = ""
    /\ currentModel = "grok-code-fast-1"
    /\ events = <<>>
    /\ accumulatedContent = ""
    /\ accumulatedToolCalls = <<>>
    /\ consumed = 0
    /\ currentDirectory = [t \in DirectoryTools |-> StartDirectory]

\* new GrokAgent(apiKey, baseURL, model, MaxRounds)
LimitIdle == maxToolRounds = maxToolRoundsOr400(Some(MaxRounds))

\* no tool call handed to executeTool on its own
DispatchIdle ==
    /\ givenCall = GrokToolCall("", "", "")
    /\ toolOutcome = None
    /\ toolMessage = None
    /\ mcpReply = None

\* the bash tool has not been called on its own; no always-allow flag is set
BashIdle ==
    /\ sessionFlags = [bashCommands |-> FALSE, allOperations |-> FALSE]
    /\ bashCalls = <<>>

\* no comparison of the modes is being made
ModesIdle ==
    /\ replies = <<>>
    /\ bufferedMessages = None

AgentIdle == LoopIdle /\ LimitIdle /\ DispatchIdle /\ BashIdle /\ ModesIdle

\* a loop test that admits one round more (a mutation of LoopTest)
LoopTestInclusive(rounds, calls, message) ==
    IF rounds <= maxToolRounds
    THEN /\ apc' = "chat"
         /\ modelCalls' = calls + 1
         /\ Enter("chat", GrokTools, getSearchOptions(currentModel, message))
    ELSE apc' = "exit" /\ modelCalls' = calls /\ UNCHANGED clientVars

\* the parameter `message` of the call in flight: the user message it pushed
UserMessage ==
    LET last == CHOOSE i \in 1..Len(messages) :
                    /\ messages[i].role = "user"
                    /\ \A j \in (i + 1)..Len(messages) : messages[j].role # "user"
    IN  Get(messages[last].text)

\* while (toolRounds < this.maxToolRounds) { currentResponse = await this.grokClient.chat(
\*     this.messages, tools, undefined, this.getSearchOptions(message))
LoopTest(rounds, calls, message) ==
    IF rounds < maxToolRounds
    THEN /\ apc' = "chat"
         /\ modelCalls' = calls + 1
         /\ Enter("chat", GrokTools, getSearchOptions(currentModel, message))
    ELSE apc' = "exit" /\ modelCalls' = calls /\ UNCHANGED clientVars

\* processUserMessage(message) up to the first model call
ProcessUserMessage(UserTexts) ==
    /\ apc \in {"idle", "returned", "thrown", "done"}
    /\ Len(messages) < MaxHistory
    /\ \E message \in UserTexts :
          /\ messages' = Push(messages, TextMessage("user", message))
          /\ LoopTest(0, 0, message)
    /\ toolRounds' = 0
    /\ currentResponse' = None
    /\ pending' = <<>>
    /\ escaped' = None
    /\ events' = <<>>
    /\ abortedAt' = ""
    /\ UNCHANGED <<unitVars, chatHistory, abortController, currentModel,
                   accumulatedContent, accumulatedToolCalls, consumed>>

\* grokClient.chat resolved: the reply is appended and its tool round begins
ChatReturns ==
    /\ apc = "chat"
    /\ cpc = "done"
    /\ Get(outcome).kind = "response"
    /\ LET responseMessage == Get(Get(outcome).response)
       IN  /\ currentResponse' = Some(responseMessage)
           /\ IF buildAssistantMessageThrows(responseMessage)
              THEN /\ escaped' = Some(RawThrow(SyntaxError))
                   /\ apc' = "thrown"
                   /\ UNCHANGED <<messages, chatHistory, toolRounds, pending>>
              ELSE /\ messages' = Push(messages, buildAssistantMessage(responseMessage))
                   /\ chatHistory' = Push(chatHistory,
                         AssistantEntry(OrElse(responseMessage.content, ""),
                                        responseMessage.tool_calls))
                   /\ escaped' = escaped
                   /\ IF Len(responseMessage.tool_calls) > 0
                      THEN /\ toolRounds' = toolRounds + 1
                           /\ pending' = responseMessage.tool_calls
                           /\ apc' = "tools"
                      ELSE /\ apc' = "exit"
                           /\ UNCHANGED <<toolRounds, pending>>
    /\ Leave
    /\ UNCHANGED <<unitVars, streamVars, modelCalls>>

\* grokClient.chat rejected: processUserMessage has no catch clause
ChatThrows ==
    /\ apc = "chat"
    /\ cpc = "done"
    /\ Get(outcome).kind \notin {"response", "return"}
    /\ escaped' = outcome
    /\ apc' = "thrown"
    /\ Leave
    /\ UNCHANGED <<unitVars, streamVars, modelCalls, messages, chatHistory, toolRounds,
                   currentResponse, pending>>

\* one iteration of for (const toolCall of responseMessage.tool_calls); after the
\* last one the while test is made again
ExecuteTool(Results, Thrown, McpReplies, Dirs) ==
    /\ apc = "tools"
    /\ pending # <<>>
    /\ currentDirectory' \in executeToolDirectories(Head(pending), currentDirectory, Dirs)
    /\ \E o \in executeTool(Head(pending), Results, Thrown, McpReplies) :
          IF o.kind = "return"
          THEN /\ chatHistory' = Push(chatHistory, ToolResultEntry(Head(pending), Get(o.result)))
               /\ messages' = Push(messages, buildToolResultMessage(Head(pending), Get(o.result)))
               /\ pending' = Tail(pending)
               /\ escaped' = escaped
               /\ IF Tail(pending) = <<>>
                  THEN LoopTest(toolRounds, modelCalls, UserMessage)
                  ELSE apc' = "tools" /\ modelCalls' = modelCalls /\ UNCHANGED clientVars
          ELSE /\ escaped' = Some(RawThrow(Get(o.error)))
               /\ apc' = "thrown"
               /\ UNCHANGED <<clientVars, messages, chatHistory, pending, modelCalls>>
    /\ UNCHANGED <<classifyVars, dispatchVars, loggerVars, bashVars, modeVars, limitVars,
                   streamVars,
                   toolRounds,
                   currentResponse>>

\* after the loop: the round-limit notice, return currentResponse
ReturnResponse ==
    /\ apc = "exit"
    /\ chatHistory' = IF toolRounds >= maxToolRounds
                      THEN Push(chatHistory, AssistantEntry(MaxRoundsNotice, <<>>))
                      ELSE chatHistory
    /\ apc' = "returned"
    /\ UNCHANGED <<unitVars, streamVars, modelCalls, clientVars, messages, toolRounds,
                   currentResponse, pending, escaped>>

(***************************************************************************)
(* Agent Loop: GrokAgent, streaming mode                                   *)
(***************************************************************************)
\* a text as one string
JoinText(text) ==
    LET F[i \in 0..Len(text)] == IF i = 0 THEN "" ELSE F[i - 1] \o text[i]
    IN  F[Len(text)]

\* StreamingChunk: an event of processUserMessageStream (token_count events without
\* their count)
StreamingChunk(type, content, toolCalls, call, result) ==
    [type |-> type, content |-> content, toolCalls |-> toolCalls, toolCall |-> call,
     toolResult |-> result]
ContentEvent(content) == StreamingChunk("content", content, <<>>, None, None)
ToolCallsEvent(toolCalls) == StreamingChunk("tool_calls", "", toolCalls, None, None)
ToolResultEvent(call, result) == StreamingChunk("tool_result", "", <<>>, Some(call), Some(result))
TokenCountEvent == StreamingChunk("token_count", "", <<>>, None, None)
DoneEvent == StreamingChunk("done", "", <<>>, None, None)

CancelledNotice == "\n\n[Operation cancelled by user]"

UserEntry(content) == [type |-> "user", content |-> content]
StreamingEntry(content, toolCalls) ==
    [type |-> "assistant", content |-> content, toolCalls |-> toolCalls, isStreaming |-> TRUE]

\* a check that never sees the cancellation (a mutation of Aborted)
AbortedNever == FALSE

\* this.abortController?.signal.aborted
Aborted == abortController = Some(TRUE)

\* a loop that collects every tool call it is given (a mutation of accumulate)
accumulateCollect(calls, tc) ==
    Append(calls, GrokToolCall(IF IsSome(tc.id) THEN Get(tc.id) ELSE Undefined, tc.name,
                               IF IsSome(tc.arguments) THEN Get(tc.arguments) ELSE ""))

\* the body of for (const tc of delta.tool_calls), for one tc
accumulate(calls, tc) ==
    LET id == IF IsSome(tc.id) THEN Get(tc.id) ELSE Undefined
        arguments == IF IsSome(tc.arguments) THEN Get(tc.arguments) ELSE ""
    IN  IF \E i \in 1..Len(calls) : calls[i].id = id
        THEN LET existing == CHOOSE i \in 1..Len(calls) :
                                 calls[i].id = id /\ \A j \in 1..(i - 1) : calls[j].id # id
             IN  [calls EXCEPT ![existing].arguments = @ \o arguments]
        ELSE Append(calls, GrokToolCall(id, tc.name, arguments))

accumulateAll(calls, deltas) ==
    LET F[i \in 0..Len(deltas)] == IF i = 0 THEN calls ELSE accumulate(F[i - 1], deltas[i])
    IN  F[Len(deltas)]

\* a notice that leaves the error's message out (a mutation of userMessageOf)
userMessageGeneric(thrown) == "\n\nSorry, I encountered an error"

\* the catch clause's userMessage for what was thrown
userMessageOf(thrown) ==
    IF thrown.kind = "GrokApiError"
    THEN "\n\nAPI Error: " \o JoinText(Get(thrown.info).message)
    ELSE "\n\nSorry, I encountered an error: "
         \o (IF IsSome(Get(thrown.error).message) THEN JoinText(Get(Get(thrown.error).message))
             ELSE "undefined")

\* a generator that ends without clearing the handle (a mutation of Finish)
FinishKeepsHandle ==
    /\ apc' = "done"
    /\ abortController' = abortController
    /\ accumulatedContent' = ""
    /\ accumulatedToolCalls' = <<>>
    /\ consumed' = 0
    /\ pending' = <<>>

\* finally { this.abortController = null }: the generator is finished and the locals of
\* its loop are gone
Finish ==
    /\ apc' = "done"
    /\ abortController' = None
    /\ accumulatedContent' = ""
    /\ accumulatedToolCalls' = <<>>
    /\ consumed' = 0
    /\ pending' = <<>>

\* the locals of the loop keep their values
KeepLocals == UNCHANGED <<accumulatedContent, accumulatedToolCalls, consumed, pending>>

\* the cancellation notice without done (a mutation of Cancel)
CancelWithoutDone ==
    /\ events' = events \o <<ContentEvent(CancelledNotice)>>
    /\ Finish

\* yield the cancellation notice, yield done, return
Cancel ==
    /\ events' = events \o <<ContentEvent(CancelledNotice), DoneEvent>>
    /\ Finish

\* a catch clause that lets the error go (a mutation of StreamCatch)
StreamCatchRethrows(thrown) ==
    /\ escaped' = Some(thrown)
    /\ apc' = "thrown"
    /\ abortController' = None
    /\ KeepLocals
    /\ UNCHANGED <<events, chatHistory>>

\* the catch clause of processUserMessageStream, entered with `thrown`
StreamCatch(thrown) ==
    /\ escaped' = escaped
    /\ IF Aborted
       THEN Cancel /\ UNCHANGED chatHistory
       ELSE /\ chatHistory' = Push(chatHistory, AssistantEntry(userMessageOf(thrown), <<>>))
            /\ events' = events \o <<ContentEvent(userMessageOf(thrown)), DoneEvent>>
            /\ Finish

\* processUserMessageStream(message) up to its first yield
ProcessUserMessageStreamUpTo(Texts, bound) ==
    /\ apc \in {"idle", "returned", "thrown", "done"}
    /\ Len(messages) < bound
    /\ abortController' = Some(FALSE)
    /\ \E message \in Texts :
          /\ chatHistory' = Push(chatHistory, UserEntry(message))
          /\ messages' = Push(messages, TextMessage("user", message))
    /\ events' = <<TokenCountEvent>>
    /\ toolRounds' = 0
    /\ modelCalls' = 0
    /\ currentResponse' = None
    /\ pending' = <<>>
    /\ escaped' = None
    /\ accumulatedContent' = ""
    /\ accumulatedToolCalls' = <<>>
    /\ consumed' = 0
    /\ apc' = "top"
    /\ abortedAt' = ""
    /\ UNCHANGED <<unitVars, clientVars, currentModel>>

ProcessUserMessageStream(Texts) == ProcessUserMessageStreamUpTo(Texts, MaxHistory)

\* while (toolRounds < this.maxToolRounds) { cancellation check; chatStream(...) }, and
\* the round-limit notice after the loop
StreamLoopTop ==
    /\ apc = "top"
    /\ IF toolRounds < maxToolRounds
       THEN IF Aborted
            THEN /\ Cancel
                 /\ UNCHANGED <<clientVars, modelCalls>>
            ELSE /\ Enter("chatStream", GrokTools, getSearchOptions(currentModel, UserMessage))
                 /\ modelCalls' = modelCalls + 1
                 /\ accumulatedContent' = ""
                 /\ accumulatedToolCalls' = <<>>
                 /\ consumed' = 0
                 /\ apc' = "stream"
                 /\ UNCHANGED <<events, abortController, pending>>
       ELSE /\ events' = events \o <<ContentEvent(MaxRoundsNotice), DoneEvent>>
            /\ Finish
            /\ UNCHANGED <<clientVars, modelCalls>>
    /\ UNCHANGED <<unitVars, messages, chatHistory, toolRounds, currentResponse, escaped,
                   currentModel, abortedAt>>

\* the stream has a chunk the loop has not taken yet
ChunkWaiting == consumed < Len(yielded)

\* one iteration of for await (const chunk of stream)
\* the delta's text replaces the accumulated text (a mutation of StreamConsume)
StreamConsumeOverwrites ==
    /\ apc = "stream"
    /\ ChunkWaiting
    /\ IF Aborted
       THEN /\ Cancel
            /\ Leave
       ELSE LET delta == yielded[consumed + 1]
                content == IF IsSome(delta.content) THEN Get(delta.content) ELSE ""
            IN  /\ accumulatedContent' = content
                /\ accumulatedToolCalls' = accumulateAll(accumulatedToolCalls, delta.tool_calls)
                /\ events' = events
                        \o (IF content # "" THEN <<ContentEvent(content)>> ELSE <<>>)
                        \o <<TokenCountEvent>>
                /\ consumed' = consumed + 1
                /\ UNCHANGED <<clientVars, apc, abortController, pending>>
    /\ UNCHANGED <<unitVars, messages, chatHistory, toolRounds, currentResponse, escaped,
                   modelCalls, currentModel, abortedAt>>

\* one iteration of for await (const chunk of stream): cancellation check, accumulation,
\* content and token_count events
StreamConsume ==
    /\ apc = "stream"
    /\ ChunkWaiting
    /\ IF Aborted
       THEN /\ Cancel
            /\ Leave
       ELSE LET delta == yielded[consumed + 1]
                content == IF IsSome(delta.content) THEN Get(delta.content) ELSE ""
            IN  /\ accumulatedContent' = accumulatedContent \o content
                /\ accumulatedToolCalls' = accumulateAll(accumulatedToolCalls, delta.tool_calls)
                /\ events' = events
                        \o (IF content # "" THEN <<ContentEvent(content)>> ELSE <<>>)
                        \o <<TokenCountEvent>>
                /\ consumed' = consumed + 1
                /\ UNCHANGED <<clientVars, apc, abortController, pending>>
    /\ UNCHANGED <<unitVars, messages, chatHistory, toolRounds, currentResponse, escaped,
                   modelCalls, currentModel, abortedAt>>

\* { content: accumulatedContent || null, tool_calls: accumulatedToolCalls or undefined }
AccumulatedMessage ==
    [role |-> "assistant",
     content |-> IF accumulatedContent = "" THEN None ELSE Some(accumulatedContent),
     tool_calls |-> accumulatedToolCalls]

\* the stream ended: the tool_calls event, or, without tool calls, the assistant
\* message and done
StreamReturns ==
    /\ apc = "stream"
    /\ cpc = "done"
    /\ Get(outcome).kind = "return"
    /\ ~ChunkWaiting
    /\ IF accumulatedToolCalls # <<>>
       THEN /\ events' = events \o <<ToolCallsEvent(accumulatedToolCalls)>>
            /\ apc' = "built"
            /\ KeepLocals
            /\ UNCHANGED <<messages, chatHistory, abortController>>
       ELSE /\ messages' = Push(messages, buildAssistantMessage(AccumulatedMessage))
            /\ chatHistory' = Push(chatHistory, StreamingEntry(accumulatedContent, <<>>))
            /\ events' = events \o <<DoneEvent>>
            /\ Finish
    /\ Leave
    /\ UNCHANGED <<unitVars, toolRounds, currentResponse, escaped, modelCalls, currentModel,
                   abortedAt>>

\* after the tool_calls event: the assistant message is built and appended and the tool
\* round begins
StreamAppendAssistant ==
    /\ apc = "built"
    /\ IF buildAssistantMessageThrows(AccumulatedMessage)
       THEN /\ StreamCatch(RawThrow(SyntaxError))
            /\ UNCHANGED <<messages, toolRounds>>
       ELSE /\ messages' = Push(messages, buildAssistantMessage(AccumulatedMessage))
            /\ chatHistory' = Push(chatHistory,
                                   StreamingEntry(accumulatedContent, accumulatedToolCalls))
            /\ toolRounds' = toolRounds + 1
            /\ pending' = accumulatedToolCalls
            /\ apc' = "each"
            /\ UNCHANGED <<events, abortController, escaped, accumulatedContent,
                           accumulatedToolCalls, consumed>>
    /\ UNCHANGED <<unitVars, clientVars, currentResponse, modelCalls, currentModel, abortedAt>>

\* for (const toolCall of accumulatedToolCalls) { cancellation check; executeTool is
\* called
StreamToolStart ==
    /\ apc = "each"
    /\ IF Aborted
       THEN Cancel
       ELSE apc' = "exec" /\ KeepLocals /\ UNCHANGED <<events, abortController>>
    /\ UNCHANGED <<unitVars, clientVars, messages, chatHistory, toolRounds, currentResponse,
                   escaped, modelCalls, currentModel, abortedAt>>

\* a tool whose result is thrown away when the cancellation was requested while it ran
\* (a mutation of StreamToolResult)
StreamToolResultInterrupted(toolCall, result) ==
    IF Aborted
    THEN /\ Cancel
         /\ UNCHANGED <<chatHistory, messages, escaped>>
    ELSE /\ chatHistory' = Push(chatHistory, ToolResultEntry(toolCall, result))
         /\ events' = events \o <<ToolResultEvent(toolCall, result)>>
         /\ apc' = "result"
         /\ KeepLocals
         /\ UNCHANGED <<messages, abortController, escaped>>

\* what follows await this.executeTool(toolCall), up to the yield: the tool_result entry
\* and the tool_result event, on which the call is suspended
StreamToolResult(toolCall, result) ==
    /\ chatHistory' = Push(chatHistory, ToolResultEntry(toolCall, result))
    /\ events' = events \o <<ToolResultEvent(toolCall, result)>>
    /\ apc' = "result"
    /\ KeepLocals
    /\ UNCHANGED <<messages, abortController, escaped>>

\* executeTool has answered
StreamToolFinish(Results, Thrown, McpReplies, Dirs) ==
    /\ apc = "exec"
    /\ currentDirectory' \in executeToolDirectories(Head(pending), currentDirectory, Dirs)
    /\ \E o \in executeTool(Head(pending), Results, Thrown, McpReplies) :
          IF o.kind = "return"
          THEN StreamToolResult(Head(pending), Get(o.result))
          ELSE /\ StreamCatch(RawThrow(Get(o.error)))
               /\ UNCHANGED messages
    /\ UNCHANGED <<classifyVars, dispatchVars, loggerVars, bashVars, modeVars, limitVars,
                   clientVars,
                   toolRounds,
                   currentResponse, modelCalls, currentModel, abortedAt>>

\* the caller has taken the tool_result event: the tool message is appended, with no
\* cancellation check before it; after the last call of the round, the refreshed token
\* count
StreamToolResume ==
    /\ apc = "result"
    /\ messages' = Push(messages,
            buildToolResultMessage(Head(pending), chatHistory[Len(chatHistory)].toolResult))
    /\ pending' = Tail(pending)
    /\ events' = events \o (IF Tail(pending) = <<>> THEN <<TokenCountEvent>> ELSE <<>>)
    /\ apc' = IF Tail(pending) = <<>> THEN "top" ELSE "each"
    /\ UNCHANGED <<unitVars, clientVars, chatHistory, toolRounds, currentResponse, escaped,
                   modelCalls, currentModel, abortController, abortedAt,
                   accumulatedContent, accumulatedToolCalls, consumed>>

\* chatStream threw while the loop awaited its next chunk
StreamRejects ==
    /\ apc = "stream"
    /\ cpc = "done"
    /\ Get(outcome).kind \notin {"response", "return"}
    /\ ~ChunkWaiting
    /\ StreamCatch(Get(outcome))
    /\ Leave
    /\ UNCHANGED <<unitVars, messages, toolRounds, currentResponse, modelCalls, currentModel,
                   abortedAt>>

\* a request that is kept for later when there is no controller (a mutation of
\* AbortCurrentOperation)
AbortCurrentOperationLatches ==
    /\ abortController # Some(TRUE)
    /\ abortController' = Some(TRUE)
    /\ abortedAt' = apc
    /\ UNCHANGED <<unitVars, clientVars, messages, chatHistory, apc, toolRounds,
                   currentResponse, pending, escaped, modelCalls, currentModel, events,
                   accumulatedContent, accumulatedToolCalls, consumed>>

\* abortCurrentOperation(): if (this.abortController) this.abortController.abort(), called
\* with no controller or with one that is not aborted yet
AbortCurrentOperation ==
    /\ abortController # Some(TRUE)
    /\ abortController' = IF abortController = None THEN None ELSE Some(TRUE)
    /\ abortedAt' = apc
    /\ UNCHANGED <<unitVars, clientVars, messages, chatHistory, apc, toolRounds,
                   currentResponse, pending, escaped, modelCalls, currentModel, events,
                   accumulatedContent, accumulatedToolCalls, consumed>>

\* setModel(model), with a model other than the current one
SetModel(Models) ==
    /\ \E model \in Models : model # currentModel /\ currentModel' = model
    /\ UNCHANGED <<unitVars, clientVars, messages, chatHistory, apc, toolRounds,
                   currentResponse, pending, escaped, modelCalls, abortController, abortedAt,
                   events, accumulatedContent, accumulatedToolCalls, consumed>>

\* executeBashCommand(command), between agent calls: this.bash.execute(command)
ExecuteBashCommand(Dirs) ==
    /\ apc \in {"idle", "returned", "thrown", "done"}
    /\ currentDirectory' \in bashExecute(currentDirectory, Dirs)
    /\ currentDirectory' # currentDirectory
    /\ UNCHANGED <<classifyVars, dispatchVars, loggerVars, bashVars, modeVars, limitVars,
                   clientVars,
                   agentVars>>

(***************************************************************************)
(* The backend and the callers of SpecClient                               *)
(***************************************************************************)
AbortRaw == RawError("AbortError", Undefined, None, None, None, Some(<<"other">>), <<>>)
ResetRaw == RawError("Error", "ECONNRESET", None, None, None, Some(<<"other">>), <<>>)
RateLimitRaw == RawError("Error", Undefined, Some(429), None, None, Some(<<"other">>), <<>>)
ServerRaw == RawError("Error", Undefined, None, Some(503), None, Some(<<"other">>), <<>>)
AuthRaw == RawError("Error", Undefined, Some(401), None, None, Some(<<"other">>), <<>>)
OtherRaw == RawError("Error", Undefined, None, None, None, Some(<<"other">>), <<>>)

BackendErrors == {ResetRaw, RateLimitRaw, AuthRaw, OtherRaw}

CallA == SdkToolCall(Some("a"), "bash", ObjectInput(CommandObject))
CallB == SdkToolCall(Some("b"), "nope", UndefinedInput)
CallText == SdkToolCall(Some("c"), "bash", StringInput("not json"))
CallCircular == SdkToolCall(Some("d"), "bash", CircularInput)

\* tool calls the backend gave no id
CallNoId == SdkToolCall(None, "bash", ObjectInput(CommandObject))
CallNoIdGlob == SdkToolCall(None, "glob", ObjectInput(EmptyObject))
ClientResponses ==
    {SdkResponse("", <<>>), SdkResponse("hi", <<CallA>>), SdkResponse("", <<CallText, CallB>>),
     SdkResponse("hi", <<CallA, CallCircular>>), SdkResponse("", <<CallNoId, CallB>>),
     SdkResponse("", <<CallNoId, CallNoIdGlob>>)}
ClientChunks == {TextDelta("hi"), ToolCallChunk(CallA), ToolCallChunk(CallCircular), OtherChunk}
ClientToolLists == {<<>>, <<GoodTool("bash")>>, <<GoodTool("bash"), BadTool>>}
ClientClock == {7}

InitClient ==
    /\ rawError = OtherRaw
    /\ info = None
    /\ GROK_DEBUG \in {None, Some("1")}
    /\ ClientIdle
    /\ AgentIdle

NextClient ==
    \/ ChatCall(ClientToolLists)
    \/ SearchCall
    \/ ChatStreamCall(ClientToolLists)
    \/ ConvertToolsThrows(JitterSamples)
    \/ GenerateTextThrows(BackendErrors, JitterSamples)
    \/ GenerateTextReturns(ClientResponses, ClientClock, JitterSamples)
    \/ StreamOpen
    \/ StreamChunk(ClientChunks, JitterSamples)
    \/ StreamThrows(BackendErrors, JitterSamples)
    \/ StreamEnd
    \/ SleepDone

SpecClient == InitClient /\ [][NextClient]_vars

(***************************************************************************)
(* SpecAgent: processUserMessage driving chat                              *)
(***************************************************************************)
AgentErrors == {RateLimitRaw, AuthRaw}
AgentJitters == {0}
AgentCalls == {CallA, CallB, CallText}
AgentResponses ==
    {SdkResponse(t, calls) : t \in {"", "hi"}, calls \in DistinctSeqsUpTo(AgentCalls, MaxCalls)}
AgentResults == {Success(Some("out")), Failure(None)}
AgentThrown == {}
AgentMcpReplies == {[thrown |-> None, isError |-> FALSE, content |-> <<>>]}
UserTexts == {"list the files"}

InitAgent ==
    /\ rawError = OtherRaw
    /\ info = None
    /\ GROK_DEBUG = None
    /\ ClientIdle
    /\ AgentIdle

NextAgent ==
    \/ ProcessUserMessage(UserTexts)
    \/ GenerateTextThrows(AgentErrors, AgentJitters)
    \/ GenerateTextReturns(AgentResponses, ClientClock, AgentJitters)
    \/ SleepDone
    \/ ChatReturns
    \/ ChatThrows
    \/ ExecuteTool(AgentResults, AgentThrown, AgentMcpReplies, {})
    \/ ReturnResponse

SpecAgent == InitAgent /\ [][NextAgent]_vars

(***************************************************************************)
(* SpecSession: one GrokAgent used for buffered and streaming calls, with   *)
(* abortCurrentOperation and setModel called at any time.  The backend     *)
(* fails with errors that are not retried: the retry loop is SpecClient's. *)
(***************************************************************************)
SessionErrors == {AuthRaw}
SessionChunks == {TextDelta("hi"), ToolCallChunk(CallA), ToolCallChunk(CallB)}
SessionResponses ==
    {SdkResponse("hi", <<>>), SdkResponse("", <<CallA>>), SdkResponse("hi", <<CallA, CallB>>)}
SessionResults == {Success(Some("out"))}
SessionModels == {"grok-code-fast-1", "llama-3"}

\* chatStream resumed by the loop's request for the next chunk
NextChunk(Chunks, Jitters) == ~ChunkWaiting /\ StreamChunk(Chunks, Jitters)
NextChunkThrows(Errors, Jitters) == ~ChunkWaiting /\ StreamThrows(Errors, Jitters)
NextChunkEnds == ~ChunkWaiting /\ StreamEnd

InitSession ==
    /\ rawError = OtherRaw
    /\ info = None
    /\ GROK_DEBUG = None
    /\ ClientIdle
    /\ AgentIdle

NextSession ==
    \/ ProcessUserMessage(UserTexts)
    \/ GenerateTextThrows(SessionErrors, AgentJitters)
    \/ GenerateTextReturns(SessionResponses, ClientClock, AgentJitters)
    \/ ChatReturns
    \/ ChatThrows
    \/ ExecuteTool(SessionResults, AgentThrown, AgentMcpReplies, {})
    \/ ReturnResponse
    \/ ProcessUserMessageStream(UserTexts)
    \/ StreamLoopTop
    \/ StreamOpen
    \/ NextChunk(SessionChunks, AgentJitters)
    \/ NextChunkThrows(SessionErrors, AgentJitters)
    \/ NextChunkEnds
    \/ StreamConsume
    \/ StreamReturns
    \/ StreamAppendAssistant
    \/ StreamToolStart
    \/ StreamToolFinish(SessionResults, AgentThrown, AgentMcpReplies, {})
    \/ StreamToolResume
    \/ StreamRejects
    \/ AbortCurrentOperation
    \/ SetModel(SessionModels)

SpecSession == InitSession /\ [][NextSession]_vars

(***************************************************************************)
(* SpecLogger: the logger's methods called in any order, with GROK_DEBUG   *)
(* set to "1", set to something else, or unset                             *)
(***************************************************************************)
\* Lines written to the log in one run of SpecLogger
MaxLog == 3

LoggerMethods ==
    {"error", "warn", "info", "debug", "logApiRequest", "logApiResponse", "logApiError"}
DebugValues == {None, Some("1"), Some("0"), Some("true")}

\* what the method makes of the log
logWith(method, log) ==
    CASE method = "error" -> logError(log)
      [] method = "warn" -> logWarn(log)
      [] method = "info" -> logInfo(log)
      [] method = "debug" -> logDebug(log)
      [] method = "logApiRequest" -> logApiRequest(log)
      [] method = "logApiResponse" -> logApiResponse(log)
      [] method = "logApiError" -> logApiError(log)

InitLogger ==
    /\ rawError = OtherRaw
    /\ info = None
    /\ GROK_DEBUG \in DebugValues
    /\ ClientIdle
    /\ AgentIdle

\* logger.<method>(...)
LoggerCall(method) ==
    /\ Len(loggerCalls) < MaxLog
    /\ loggerCalls' = Append(loggerCalls, method)
    /\ logged' = logWith(method, logged)
    /\ UNCHANGED <<rawError, info, dispatchVars, GROK_DEBUG, currentDirectory, bashVars,
                   modeVars, limitVars, entry, cpc, tools, attempt, lastError, attempts,
                   errs, sleeps, yielded, outcome,
                   searchOptions, agentVars>>

LogErrorCall == LoggerCall("error")
LogWarnCall == LoggerCall("warn")
LogInfoCall == LoggerCall("info")
LogDebugCall == LoggerCall("debug")
LogApiRequestCall == LoggerCall("logApiRequest")
LogApiResponseCall == LoggerCall("logApiResponse")
LogApiErrorCall == LoggerCall("logApiError")

NextLogger ==
    \/ LogErrorCall
    \/ LogWarnCall
    \/ LogInfoCall
    \/ LogDebugCall
    \/ LogApiRequestCall
    \/ LogApiResponseCall
    \/ LogApiErrorCall

SpecLogger == InitLogger /\ [][NextLogger]_vars

\* the line each method writes when it writes
LineOf(method) ==
    CASE method = "error" -> "ERROR"
      [] method = "warn" -> "WARN"
      [] method = "info" -> "INFO"
      [] method = "debug" -> "DEBUG"
      [] method = "logApiRequest" -> "DEBUG API_REQUEST"
      [] method = "logApiResponse" -> "DEBUG API_RESPONSE"
      [] method = "logApiError" -> "ERROR API_ERROR"

\* the lines the calls made so far must have left, debug mode being on or off
RECURSIVE ExpectedLog(_, _)
ExpectedLog(calls, on) ==
    IF calls = <<>> THEN <<>>
    ELSE LET before == ExpectedLog(SubSeq(calls, 1, Len(calls) - 1), on)
             method == calls[Len(calls)]
         IN  IF on \/ method \in {"logApiError", "error", "warn"}
             THEN Append(before, LineOf(method))
             ELSE before

\* C22: the logger writes an API-error line on every logApiError call whether or not
\* debug mode (GROK_DEBUG=1) is on, and writes API-request, API-response, info and debug
\* lines only when it is on; with debug mode off those calls leave the log unchanged.
C22_LoggedByMode == logged = ExpectedLog(loggerCalls, GROK_DEBUG = Some("1"))

\* debug mode off: a request and an info call left nothing, the API error is there
C22_Witness ==
    /\ GROK_DEBUG = Some("0")
    /\ loggerCalls = <<"logApiRequest", "logApiError", "info">>
    /\ logged = <<"ERROR API_ERROR">>

(***************************************************************************)
(* SpecSearch: agent calls with messages and models that differ in what    *)
(* getSearchOptions makes of them                                          *)
(***************************************************************************)
SearchTexts == {"list the files", "Latest NEWS", "in 2031", "20x4"}
SearchModels == {"grok-code-fast-1", "llama-3", "Grok-3"}
SearchResponses == {SdkResponse("hi", <<>>), SdkResponse("", <<CallA>>)}
SearchChunks == {TextDelta("hi"), ToolCallChunk(CallA)}

InitSearch == InitSession

NextSearch ==
    \/ ProcessUserMessage(SearchTexts)
    \/ GenerateTextReturns(SearchResponses, ClientClock, AgentJitters)
    \/ ChatReturns
    \/ ExecuteTool(SessionResults, AgentThrown, AgentMcpReplies, {})
    \/ ReturnResponse
    \/ ProcessUserMessageStream(SearchTexts)
    \/ StreamLoopTop
    \/ StreamOpen
    \/ NextChunk(SearchChunks, AgentJitters)
    \/ NextChunkEnds
    \/ StreamConsume
    \/ StreamReturns
    \/ StreamAppendAssistant
    \/ StreamToolStart
    \/ StreamToolFinish(SessionResults, AgentThrown, AgentMcpReplies, {})
    \/ StreamToolResume
    \/ SetModel(SearchModels)

SpecSearch == InitSearch /\ [][NextSearch]_vars

\* the steps of a call in flight: the backend, the tools and the loop itself, each of
\* which terminates and hands control on
CallSteps ==
    \/ GenerateTextThrows(SessionErrors, AgentJitters)
    \/ GenerateTextReturns(SessionResponses, ClientClock, AgentJitters)
    \/ ChatReturns
    \/ ChatThrows
    \/ ExecuteTool(SessionResults, AgentThrown, AgentMcpReplies, {})
    \/ ReturnResponse
    \/ StreamLoopTop
    \/ StreamOpen
    \/ NextChunk(SessionChunks, AgentJitters)
    \/ NextChunkThrows(SessionErrors, AgentJitters)
    \/ NextChunkEnds
    \/ StreamConsume
    \/ StreamReturns
    \/ StreamAppendAssistant
    \/ StreamToolStart
    \/ StreamToolFinish(SessionResults, AgentThrown, AgentMcpReplies, {})
    \/ StreamToolResume
    \/ StreamRejects

\* the session with every awaited promise settling and every resumed loop running on
FairSpecSession == SpecSession /\ WF_vars(CallSteps)

(***************************************************************************)
(* Claims about the retry loop of chat and chatStream (SpecClient)         *)
(***************************************************************************)
\* every error caught so far in the call was classified retryable
AllCaughtRetryable == \A i \in 1..Len(errs) : classifyError(errs[i]).retryable
\* the call ended by throwing
Threw == cpc = "done" /\ outcome # None /\ outcome[1].kind \notin {"response", "return"}

\* C1: when every attempt of chat or chatStream fails with a retryable error, exactly
\* MAX_RETRIES + 1 = 4 attempts are made, and then a GrokApiError is raised whose
\* info is the classification of the fourth attempt's error.
C1_RetryExhaustion ==
    /\ MAX_RETRIES + 1 = 4
    /\ attempts <= MAX_RETRIES + 1
    /\ (Threw /\ AllCaughtRetryable) =>
          /\ attempts = 4
          /\ Len(errs) = 4
          /\ outcome[1].kind = "GrokApiError"
          /\ outcome[1].info = <<classifyError(errs[4])>>
    /\ (Len(errs) = 4 /\ AllCaughtRetryable) => Threw

C1_Witness ==
    /\ entry = "chatStream"
    /\ Threw
    /\ errs = <<ResetRaw, RateLimitRaw, CircularError, RateLimitRaw>>
    /\ attempts = 4
    /\ outcome[1].info[1].code = "rate_limit"

\* C2: when an attempt of chat or chatStream (at any index 0..3) fails with a
\* non-retryable error, a GrokApiError carrying that classification is raised at once:
\* no backoff sleep follows and no further attempt is made.
C2_NonRetryableRaised ==
    (Len(errs) > 0 /\ ~classifyError(errs[Len(errs)]).retryable) =>
        /\ cpc = "done"
        /\ outcome = <<[kind |-> "GrokApiError", info |-> <<classifyError(errs[Len(errs)])>>,
                        error |-> <<>>, response |-> <<>>]>>
        /\ attempts = Len(errs)
        /\ Len(sleeps) = Len(errs) - 1

C2_Witness ==
    /\ entry = "chat"
    /\ errs = <<RateLimitRaw, ResetRaw, AuthRaw>>
    /\ Threw
    /\ Len(sleeps) = 2
    /\ outcome[1].info[1].code = "auth"

\* C3: every error that escapes chat, chatStream or search is a GrokApiError carrying
\* an ApiErrorInfo (the classification of the error last caught), whether the backend
\* call, the tool-declaration conversion or the reply conversion raised it.
C3_OnlyGrokApiError ==
    Threw =>
        /\ outcome[1].kind = "GrokApiError"
        /\ outcome[1].error = <<>>
        /\ lastError # <<>>
        /\ outcome[1].info = <<classifyError(lastError[1])>>
        /\ outcome[1].info[1].code \in {"timeout", "network", "bad_request", "auth", "not_found",
                                        "rate_limit", "server", "malformed", "unknown"}

C3_Witness ==
    /\ entry = "chatStream"
    /\ Threw
    /\ lastError = <<DeclarationError>>
    /\ outcome[1].kind = "GrokApiError"
    /\ outcome[1].info[1].code = "unknown"

\* C9: the backoff sleep after failed attempt k (k = 0, 1, 2) lasts at least 1000*2^k ms
\* and less than 1000*2^k + 500 ms; a call that fails retryably on every attempt sleeps
\* exactly 3 times, and no sleep follows the final attempt.
C9_Backoff ==
    /\ \A k \in 0..(Len(sleeps) - 1) :
          /\ k \in {0, 1, 2}
          /\ sleeps[k + 1] >= 1000 * 2^k
          /\ sleeps[k + 1] < 1000 * 2^k + 500
    /\ (Threw /\ AllCaughtRetryable) => Len(sleeps) = 3
    /\ cpc = "sleep" => (attempt < 3 /\ Len(sleeps) = attempt + 1)
    /\ attempts = 4 => cpc # "sleep"

C9_Witness ==
    /\ Threw
    /\ AllCaughtRetryable
    /\ sleeps = <<1000, 2499, 4000>>

(***************************************************************************)
(* Claims about buffered mode (SpecAgent)                                  *)
(***************************************************************************)
\* C4: any error that escapes processUserMessage is a GrokApiError, for every sequence
\* of model replies (tool-call argument text being arbitrary) and transport failures.
C4_AsStated ==
    escaped # None => escaped[1].kind = "GrokApiError"

\* the reply last received carries tool calls and its round is over: the next model
\* call has been issued, or processUserMessage has ended
RoundOver ==
    /\ currentResponse # None
    /\ Len(currentResponse[1].tool_calls) > 0
    /\ apc \in {"chat", "exit", "returned", "thrown"}

\* the ids of the tool-call parts of a message, in order
ToolCallIds(message) ==
    LET parts == IF message.parts = None THEN <<>> ELSE message.parts[1]
        F[i \in 0..Len(parts)] ==
            IF i = 0 THEN <<>>
            ELSE IF parts[i].type = "tool-call" THEN Append(F[i - 1], parts[i].toolCallId)
            ELSE F[i - 1]
    IN  F[Len(parts)]

\* the history ends with the assistant message carrying `calls` and then the
\* tool-result messages for them, in their order
EndsWithRound(history, calls) ==
    LET n == Len(calls)
        base == Len(history) - n - 1
    IN  /\ base >= 0
        /\ history[base + 1].role = "assistant"
        /\ ToolCallIds(history[base + 1]) = [i \in 1..n |-> calls[i].id]
        /\ \A i \in 1..n :
              /\ history[base + 1 + i].role = "tool"
              /\ history[base + 1 + i].parts # None
              /\ Len(history[base + 1 + i].parts[1]) = 1
              /\ history[base + 1 + i].parts[1][1].type = "tool-result"
              /\ history[base + 1 + i].parts[1][1].toolCallId = calls[i].id

\* C10: in buffered mode, for every model reply carrying tool calls c1..cn, the history
\* afterwards holds the assistant message carrying the calls followed by the tool-result
\* messages for c1..cn in that order, all appended before the next model call is issued.
C10_AsStated ==
    RoundOver => EndsWithRound(messages, currentResponse[1].tool_calls)

\* the entries at the end of the chat log that are the round-limit notice
NoticesAtEnd(log) ==
    LET F[i \in 0..Len(log)] ==
            IF i = 0 THEN 0
            ELSE IF log[Len(log) - i + 1] = AssistantEntry(MaxRoundsNotice, <<>>) /\ F[i - 1] = i - 1
                 THEN i
                 ELSE F[i - 1]
    IN  F[Len(log)]

\* the buffered call has ended otherwise than by a transport failure
EndedAfterReply ==
    /\ apc \in {"returned", "thrown"}
    /\ currentResponse # None
    /\ (escaped # None => escaped[1].kind # "GrokApiError")

\* C13: with round limit N and a model that requests a tool call in every reply,
\* processUserMessage makes exactly N model calls and N rounds, appends exactly one
\* round-limit notice to the chat log and returns without raising; when the model stops
\* requesting tools before N rounds, no notice is appended.
C13_AsStated ==
    /\ maxToolRounds >= 1
    /\ (EndedAfterReply /\ Len(currentResponse[1].tool_calls) > 0) =>
          /\ apc = "returned"
          /\ escaped = None
          /\ modelCalls = maxToolRounds
          /\ toolRounds = maxToolRounds
          /\ NoticesAtEnd(chatHistory) = 1
    /\ (EndedAfterReply /\ Len(currentResponse[1].tool_calls) = 0) =>
          /\ apc = "returned"
          /\ toolRounds < maxToolRounds
          /\ NoticesAtEnd(chatHistory) = 0

(***************************************************************************)
(* Claims about the history of a session (SpecSession)                     *)
(***************************************************************************)
\* the ids of the tool-result parts of a message, in order
ToolResultIds(message) ==
    LET parts == IF message.parts = None THEN <<>> ELSE message.parts[1]
        F[i \in 0..Len(parts)] ==
            IF i = 0 THEN <<>>
            ELSE IF parts[i].type = "tool-result" THEN Append(F[i - 1], parts[i].toolCallId)
            ELSE F[i - 1]
    IN  F[Len(parts)]

ElementsOf(seq) == {seq[i] : i \in 1..Len(seq)}

\* the assistant message a tool message at index j answers: the last one before it
RoundOf(history, j) ==
    IF \E i \in 1..(j - 1) : history[i].role = "assistant"
    THEN CHOOSE i \in 1..(j - 1) :
             history[i].role = "assistant"
             /\ \A k \in (i + 1)..(j - 1) : history[k].role # "assistant"
    ELSE 0

IsPrefix(s, t) == Len(s) <= Len(t) /\ \A i \in 1..Len(s) : s[i] = t[i]

\* C12: the message history and the chat log are append-only: every step of
\* processUserMessage, processUserMessageStream, abortCurrentOperation and setModel
\* (calls ending in cancellation or error included) leaves the earlier history as a prefix
\* of the later one.
C12_AppendOnly ==
    [][IsPrefix(messages, messages') /\ IsPrefix(chatHistory, chatHistory')]_vars

\* a streaming call that was cancelled after a tool round, the model having been
\* changed meanwhile
C12_Witness ==
    /\ apc = "done"
    /\ abortedAt # ""
    /\ currentModel # "grok-code-fast-1"
    /\ Len(messages) >= 3
    /\ Len(chatHistory) >= 3
    /\ events[Len(events) - 1] = ContentEvent(CancelledNotice)

(***************************************************************************)
(* SpecBash: BashTool.execute called with and without a command, with the  *)
(* session's flags set or not and the user confirming or denying           *)
(***************************************************************************)
\* Calls of execute in one run of SpecBash
MaxBash == 2
BashCommands == {None, Some(""), Some("ls"), Some("cd"), Some("cd src")}
BashAnswers ==
    {Confirmation(TRUE, None), Confirmation(FALSE, None), Confirmation(FALSE, Some("no")),
     Confirmation(FALSE, Some(""))}
BashChdirs == {None, Some("/repo/src")}
BashSpawned == {Success(Some("out")), Failure(Some("exit 1"))}

InitBash ==
    /\ rawError = OtherRaw
    /\ info = None
    /\ GROK_DEBUG = None
    /\ ClientIdle
    /\ LoopIdle
    /\ LimitIdle
    /\ DispatchIdle
    /\ sessionFlags \in [bashCommands : BOOLEAN, allOperations : BOOLEAN]
    /\ bashCalls = <<>>
    /\ ModesIdle

\* await this.bash.execute(command)
BashExecute(Commands, Answers, Chdirs, Spawned) ==
    /\ Len(bashCalls) < MaxBash
    /\ \E command \in Commands, answer \in Answers, chdir \in Chdirs, spawned \in Spawned :
          LET did == execute(command, sessionFlags, answer, currentDirectory.bash, chdir,
                             spawned)
          IN  /\ bashCalls' = Append(bashCalls, [command |-> command, answer |-> answer,
                                                 before |-> currentDirectory.bash, did |-> did])
              /\ currentDirectory' = [currentDirectory EXCEPT !.bash = did.directory]
    /\ UNCHANGED <<classifyVars, dispatchVars, loggerVars, sessionFlags, modeVars, limitVars,
                   clientVars,
                   agentVars>>

NextBash == BashExecute(BashCommands, BashAnswers, BashChdirs, BashSpawned)

SpecBash == InitBash /\ [][NextBash]_vars

(***************************************************************************)
(* Claims about the shell tool (SpecBash)                                  *)
(***************************************************************************)
\* one of the session's always-allow flags is set
FlagSet == sessionFlags.bashCommands \/ sessionFlags.allOperations

\* C34: BashTool.execute runs a command (an in-process cd included) only if the session's
\* bashCommands or allOperations flag is set or requestConfirmation returned confirmed;
\* when a flag is set no confirmation is requested; when confirmation is denied it
\* returns {success:false} with the feedback (or the default cancellation message), runs
\* nothing and leaves the current directory unchanged.
C34_ConfirmationGate ==
    /\ \A i \in 1..Len(bashCalls) :
          LET c == bashCalls[i]
          IN  /\ c.did.ran # "nothing" => FlagSet \/ (c.did.asked /\ c.answer.confirmed)
              /\ FlagSet => ~c.did.asked
              /\ (c.did.asked /\ ~c.answer.confirmed) =>
                    /\ c.did.result =
                          Failure(Some(IF c.answer.feedback \in {None, Some("")}
                                       THEN "Command execution cancelled by user"
                                       ELSE Get(c.answer.feedback)))
                    /\ c.did.ran = "nothing"
                    /\ c.did.directory = c.before
              /\ (~FlagSet /\ c.command \notin {None, Some("")}) => c.did.asked
    /\ bashCalls # <<>> => currentDirectory.bash = bashCalls[Len(bashCalls)].did.directory

\* a cd that was denied with feedback after a cd that was confirmed
C34_Witness ==
    /\ ~FlagSet
    /\ Len(bashCalls) = 2
    /\ bashCalls[1].command = Some("cd src")
    /\ bashCalls[1].did.ran = "chdir"
    /\ bashCalls[1].did.directory = "/repo/src"
    /\ bashCalls[2].command = Some("cd src")
    /\ bashCalls[2].answer = Confirmation(FALSE, Some("no"))
    /\ bashCalls[2].did.result = Failure(Some("no"))
    /\ currentDirectory.bash = "/repo/src"

(***************************************************************************)
(* SpecModes: the same user message and the same model replies given to a  *)
(* buffered call and then, by a new agent, to a streaming call             *)
(***************************************************************************)
ModeReplies ==
    {SdkResponse("hi", <<>>), SdkResponse("", <<CallA>>), SdkResponse("hi", <<CallA>>),
     SdkResponse("", <<CallB>>)}
\* the model's replies to the successive model calls of a run
ModeScripts == {<<r>> : r \in ModeReplies} \cup {<<r, q>> : r, q \in ModeReplies}

\* the reply to the model call in flight; past the script the model answers in text
ReplyNow ==
    IF modelCalls \in 1..Len(replies) THEN replies[modelCalls] ELSE SdkResponse("ok", <<>>)

\* a reply as the chunks of fullStream: its text, then its tool calls
ChunksOf(reply) ==
    (IF reply.text = "" THEN <<>> ELSE <<TextDelta(reply.text)>>)
    \o [i \in 1..Len(reply.toolCalls) |-> ToolCallChunk(reply.toolCalls[i])]

\* the chunk of the reply that comes next, if any
ChunkNow ==
    IF Len(yielded) < Len(ChunksOf(ReplyNow)) THEN {ChunksOf(ReplyNow)[Len(yielded) + 1]} ELSE {}

InitModes ==
    /\ rawError = OtherRaw
    /\ info = None
    /\ GROK_DEBUG = None
    /\ ClientIdle
    /\ LoopIdle
    /\ LimitIdle
    /\ DispatchIdle
    /\ BashIdle
    /\ replies \in ModeScripts
    /\ bufferedMessages = None

\* processUserMessage(message) on the first agent
BufferedRun == bufferedMessages = None /\ apc = "idle" /\ ProcessUserMessage(UserTexts)

\* new GrokAgent(...): a second agent with the same prior history; the history the
\* buffered run left is kept for the comparison
NewAgent ==
    /\ bufferedMessages = None
    /\ apc \in {"returned", "thrown"}
    /\ bufferedMessages' = Some(messages)
    /\ messages' = <<>>
    /\ chatHistory' = <<>>
    /\ apc' = "idle"
    /\ toolRounds' = 0
    /\ currentResponse' = None
    /\ pending' = <<>>
    /\ escaped' = None
    /\ modelCalls' = 0
    /\ events' = <<>>
    /\ UNCHANGED <<classifyVars, dispatchVars, loggerVars, bashVars, replies, limitVars,
                   currentDirectory, clientVars, streamVars>>

\* processUserMessageStream(message) on the second agent
StreamingRun == bufferedMessages # None /\ apc = "idle" /\ ProcessUserMessageStream(UserTexts)

NextModes ==
    \/ BufferedRun
    \/ GenerateTextReturns({ReplyNow}, ClientClock, AgentJitters)
    \/ ChatReturns
    \/ ExecuteTool(SessionResults, AgentThrown, AgentMcpReplies, {})
    \/ ReturnResponse
    \/ NewAgent
    \/ StreamingRun
    \/ StreamLoopTop
    \/ StreamOpen
    \/ NextChunk(ChunkNow, AgentJitters)
    \/ (Len(yielded) = Len(ChunksOf(ReplyNow)) /\ NextChunkEnds)
    \/ StreamConsume
    \/ StreamReturns
    \/ StreamAppendAssistant
    \/ StreamToolStart
    \/ StreamToolFinish(SessionResults, AgentThrown, AgentMcpReplies, {})
    \/ StreamToolResume

SpecModes == InitModes /\ [][NextModes]_vars

(***************************************************************************)
(* Claims about the two modes (SpecModes)                                  *)
(***************************************************************************)
\* C35 as stated: given the same prior history, the same user message and the same
\* sequence of model replies (delivered whole in buffered mode and as deltas in
\* streaming mode, tool-call ids distinct), with no transport failure and no
\* cancellation, processUserMessage and processUserMessageStream leave identical
\* message histories.
C35_AsStated == (bufferedMessages # None /\ apc = "done") => messages = Get(bufferedMessages)

(***************************************************************************)
(* SpecDirectory: buffered and streaming calls whose rounds run bash, glob *)
(* and grep, with cd commands, and executeBashCommand between the calls    *)
(***************************************************************************)
\* where a cd can lead
DirectoryDirs == {"/repo/src", "/repo/test"}
CallGlob == SdkToolCall(Some("g"), "glob", ObjectInput(EmptyObject))
\* a bash call whose argument text parses to null
CallNull == SdkToolCall(Some("n"), "bash", StringInput("null"))
DirectoryResponses ==
    {SdkResponse("hi", <<>>), SdkResponse("", <<CallA, CallGlob>>),
     SdkResponse("", <<CallNull, CallGlob>>)}
DirectoryChunks == {ToolCallChunk(CallA), ToolCallChunk(CallGlob)}

InitDirectory == InitSession

NextDirectory ==
    \/ ProcessUserMessage(UserTexts)
    \/ GenerateTextReturns(DirectoryResponses, ClientClock, AgentJitters)
    \/ ChatReturns
    \/ ExecuteTool(SessionResults, AgentThrown, AgentMcpReplies, DirectoryDirs)
    \/ ReturnResponse
    \/ ProcessUserMessageStream(UserTexts)
    \/ StreamLoopTop
    \/ StreamOpen
    \/ NextChunk(DirectoryChunks, AgentJitters)
    \/ NextChunkEnds
    \/ StreamConsume
    \/ StreamReturns
    \/ StreamAppendAssistant
    \/ StreamToolStart
    \/ StreamToolFinish(SessionResults, AgentThrown, AgentMcpReplies, DirectoryDirs)
    \/ StreamToolResume
    \/ ExecuteBashCommand(DirectoryDirs)

SpecDirectory == InitDirectory /\ [][NextDirectory]_vars

(***************************************************************************)
(* SpecRetry: streaming calls whose transport stream fails with a          *)
(* retryable error, before or after it has delivered events                *)
(***************************************************************************)
RetryErrors == {RateLimitRaw}
RetryChunks == {TextDelta("hi"), ToolCallChunk(CallA)}

InitRetry == InitSession

NextRetry ==
    \/ ProcessUserMessageStream(UserTexts)
    \/ StreamLoopTop
    \/ StreamOpen
    \/ NextChunk(RetryChunks, AgentJitters)
    \/ NextChunkThrows(RetryErrors, AgentJitters)
    \/ NextChunkEnds
    \/ SleepDone
    \/ StreamConsume
    \/ StreamReturns
    \/ StreamAppendAssistant
    \/ StreamToolStart
    \/ StreamToolFinish(SessionResults, AgentThrown, AgentMcpReplies, {})
    \/ StreamToolResume
    \/ StreamRejects

SpecRetry == InitRetry /\ [][NextRetry]_vars

(***************************************************************************)
(* SpecFollowUp: streaming calls that may be cancelled, each followed by   *)
(* further streaming calls on the history the earlier ones left            *)
(***************************************************************************)
\* A new user message is accepted in SpecFollowUp while the history is shorter than this
MaxFollowUp == 3
FollowUpChunks == {TextDelta("hi"), ToolCallChunk(CallA)}

InitFollowUp == InitSession

NextFollowUp ==
    \/ ProcessUserMessageStreamUpTo(UserTexts, MaxFollowUp)
    \/ StreamLoopTop
    \/ StreamOpen
    \/ NextChunk(FollowUpChunks, AgentJitters)
    \/ NextChunkEnds
    \/ StreamConsume
    \/ StreamReturns
    \/ StreamAppendAssistant
    \/ StreamToolStart
    \/ StreamToolFinish(SessionResults, AgentThrown, AgentMcpReplies, {})
    \/ StreamToolResume
    \/ AbortCurrentOperation

SpecFollowUp == InitFollowUp /\ [][NextFollowUp]_vars

(***************************************************************************)
(* SpecLimit: buffered calls of agents constructed with any round limit,   *)
(* the model asking for a tool in every round or answering in text         *)
(***************************************************************************)
\* the constructor's maxToolRounds argument: absent, 0, negative, positive
LimitArguments == {None, Some(0), Some(-1), Some(1), Some(2)}
LimitResponses == {SdkResponse("", <<CallA>>), SdkResponse("hi", <<>>)}
LimitResults == {Success(Some("out"))}

\* new GrokAgent(apiKey, baseURL, model, maxToolRounds)
InitLimit ==
    /\ rawError = OtherRaw
    /\ info = None
    /\ GROK_DEBUG = None
    /\ ClientIdle
    /\ LoopIdle
    /\ DispatchIdle
    /\ BashIdle
    /\ ModesIdle
    /\ \E argument \in LimitArguments : maxToolRounds = maxToolRoundsOr400(argument)

NextLimit ==
    \/ ProcessUserMessage(UserTexts)
    \/ GenerateTextReturns(LimitResponses, ClientClock, AgentJitters)
    \/ ChatReturns
    \/ ExecuteTool(LimitResults, {}, AgentMcpReplies, {})
    \/ ReturnResponse

SpecLimit == InitLimit /\ [][NextLimit]_vars

(***************************************************************************)
(* Claims about the round limit (SpecLimit)                                *)
(***************************************************************************)
\* C40 as stated: for every value of the configured round limit (constructor argument
\* maxToolRounds, replaced by 400 when absent or 0), buffered processUserMessage issues at
\* least one model call and returns a non-null response whenever it returns without
\* raising.
C40_AsStated == apc = "returned" => modelCalls >= 1 /\ currentResponse # None

(***************************************************************************)
(* Claims about the client's log and replies (SpecClient)                  *)
(***************************************************************************)
\* C32 as stated: within one model reply, every tool call handed to the agent loop has an
\* id distinct from the ids of the other tool calls of that reply, whether the id was
\* assigned by the backend or synthesized by convertToolCalls because the backend gave
\* none.
C32_AsStated ==
    (outcome # None /\ outcome[1].kind = "response") =>
        LET calls == Get(outcome[1].response).tool_calls
        IN  \A i, j \in 1..Len(calls) : i # j => calls[i].id # calls[j].id

\* how many of the lines are `line`
CountLines(log, line) == Cardinality({i \in 1..Len(log) : log[i] = line})

\* C30 as stated: in chat and chatStream, one outgoing-call log record is produced per
\* attempt (so a call retried k times produces k+1 of them), and each failed attempt's
\* failure record is logged before the decision to sleep-and-retry or to raise. Read in
\* debug mode, where the logger writes the outgoing-call records: when the call is over
\* or sleeps before a retry, the log of the call holds one outgoing-call record more than
\* there were retries, one failure record per failed attempt, and the retry notice of
\* each retry after the failure record of the attempt that failed.
C30_AsStated ==
    (GROK_DEBUG = Some("1") /\ entry # "none" /\ cpc \in {"sleep", "done"}) =>
        /\ CountLines(logged, "DEBUG API_REQUEST") =
              (IF cpc = "sleep" THEN Len(sleeps) - 1 ELSE Len(sleeps)) + 1
        /\ CountLines(logged, "ERROR API_ERROR") = Len(errs)
        /\ \A i \in 1..Len(logged) :
              logged[i] = "INFO" => i > 2 /\ logged[i - 2] = "ERROR API_ERROR"

(***************************************************************************)
(* Claims about the tools' directories (SpecDirectory)                     *)
(***************************************************************************)
\* search, glob and grep are where bash is
InSync(dirs) == \A t \in DirectoryTools : dirs[t] = dirs.bash

\* an agent call is in flight and the last thing appended to the message history is the
\* result of a bash tool call: the call has returned and no later tool call has
BashToolCallReturned ==
    /\ apc \in {"chat", "tools", "exit", "top", "stream", "built", "each", "exec"}
    /\ messages # <<>>
    /\ messages[Len(messages)].role = "tool"
    /\ Get(messages[Len(messages)].parts)[1].toolName = "bash"

\* C28 as stated: after every bash tool call dispatched through executeTool returns, and
\* before the next tool call of the same round starts, the search, glob and grep tools'
\* current directory equals the bash tool's current directory.
C28_AsStated == BashToolCallReturned => InSync(currentDirectory)

\* no agent call is in flight: every public operation begun has returned
BetweenOperations == apc \in {"idle", "returned", "thrown", "done"}

\* C39 as stated: after any sequence of public agent operations, including direct
\* executeBashCommand calls as well as tool calls dispatched by the loop, the search, glob
\* and grep tools' current directory equals the bash tool's current directory.
C39_AsStated == BetweenOperations => InSync(currentDirectory)

(***************************************************************************)
(* Claims about the search directive (SpecSearch)                          *)
(***************************************************************************)
\* the step issues a model call: chat or chatStream is entered
IssuesModelCall == entry = "none" /\ entry' \in {"chat", "chatStream"}

\* the sample model names that start with "grok", and the sample messages that hold a
\* listed keyword in any case or a 20xx year
GrokNamed == {"grok-code-fast-1"}
RecentTexts == {"Latest NEWS", "in 2031"}

\* C21: for every model call of a buffered or streaming agent call, the search directive
\* {mode:"auto"} is attached if and only if the current model name starts with "grok" and
\* the user message matches the recency heuristic; otherwise none is attached.
C21_SearchDirective ==
    [][IssuesModelCall =>
          searchOptions' = IF currentModel \in GrokNamed /\ UserMessage' \in RecentTexts
                           THEN Some("auto")
                           ELSE None]_vars

\* the second model call of a streaming call, with the directive attached
C21_Witness ==
    /\ entry = "chatStream"
    /\ modelCalls = 2
    /\ UserMessage = "in 2031"
    /\ searchOptions = Some("auto")

(***************************************************************************)
(* Claims about streaming mode (SpecSession)                               *)
(***************************************************************************)
\* how many done events a sequence of events holds
DoneCount(evs) == Cardinality({i \in 1..Len(evs) : evs[i].type = "done"})

\* the events end with the cancellation notice and done
EndsCancelled(evs) ==
    /\ Len(evs) >= 2
    /\ evs[Len(evs) - 1] = ContentEvent(CancelledNotice)
    /\ evs[Len(evs)] = DoneEvent

\* the cancellation notice is among the events
CancelObserved(evs) == \E i \in 1..Len(evs) : evs[i] = ContentEvent(CancelledNotice)

\* C14: in streaming mode, when abortCurrentOperation is called while the model stream
\* is being consumed, the event sequence ends with exactly one done event, no event
\* follows it, and no tool execution starts once the loop has observed the cancellation
\* (the next check the loop makes, before a chunk or before a tool, observes it).
C14_CancelMidStream ==
    /\ abortedAt = "stream" =>
          /\ apc \in {"stream", "built", "each", "done"}
          /\ (apc = "done") = (DoneCount(events) = 1)
          /\ apc = "done" => events[Len(events)] = DoneEvent
          /\ apc # "done" => DoneCount(events) = 0
    /\ CancelObserved(events) =>
          /\ apc = "done"
          /\ EndsCancelled(events)
          /\ DoneCount(events) = 1
          /\ pending = <<>>

\* cancelled after one chunk of the first stream had been delivered
C14_Witness ==
    /\ abortedAt = "stream"
    /\ apc = "done"
    /\ events = <<TokenCountEvent, ContentEvent("hi"), TokenCountEvent,
                  ContentEvent(CancelledNotice), DoneEvent>>

\* C15: every streaming call that runs to its end has emitted exactly one done event,
\* as its last event, whichever way it ended (final answer, round limit, cancellation
\* observed at a check, failure caught), and none before its end.
C15_OneDone ==
    /\ apc = "done" =>
          /\ DoneCount(events) = 1
          /\ events[Len(events)] = DoneEvent
    /\ apc \in {"top", "stream", "built", "each", "exec", "result"} => DoneCount(events) = 0

\* ended by the round limit
C15_Witness ==
    /\ apc = "done"
    /\ toolRounds = maxToolRounds
    /\ Len(events) >= 2
    /\ events[Len(events) - 1] = ContentEvent(MaxRoundsNotice)
    /\ events[Len(events)] = DoneEvent

\* the assistant messages the call in flight has appended: those after its user message
AssistantsOfCall(history) ==
    Cardinality({i \in 1..Len(history) :
                    /\ history[i].role = "assistant"
                    /\ \E j \in 1..(i - 1) :
                          /\ history[j].role = "user"
                          /\ \A k \in (j + 1)..Len(history) : history[k].role # "user"})

\* the step observes the cancellation at one of the three checks: before a model call,
\* before a chunk of the stream, before a tool
CheckPointCancel ==
    /\ ~CancelObserved(events)
    /\ CancelObserved(events')
    /\ \/ apc = "top"
       \/ apc = "stream" /\ ChunkWaiting
       \/ apc = "each"

\* C23 as stated: in streaming mode, whenever cancellation is observed at any of the three
\* check points, the call ends with the message history holding no assistant message
\* (text or tool calls) for the round in which it was observed: of the rounds the call has
\* begun, only the earlier ones have their assistant message in the history.
C23_AsStated ==
    [][CheckPointCancel =>
          AssistantsOfCall(messages') = IF apc = "top" THEN modelCalls ELSE modelCalls - 1]_vars

\* the tool-call parts of the message at place i of a history
ToolCallsAt(history, i) ==
    IF history[i].role = "assistant" /\ IsSome(history[i].parts)
    THEN LET parts == Get(history[i].parts)
         IN  {parts[k] : k \in {n \in 1..Len(parts) : parts[n].type = "tool-call"}}
    ELSE {}

\* every tool-call part of the history has a tool-result message for its id later in it
AllAnswered(history) ==
    \A i \in 1..Len(history) : \A call \in ToolCallsAt(history, i) :
        \E j \in (i + 1)..Len(history) :
            /\ history[j].role = "tool"
            /\ \E k \in 1..Len(Get(history[j].parts)) :
                   /\ Get(history[j].parts)[k].type = "tool-result"
                   /\ Get(history[j].parts)[k].toolCallId = call.toolCallId

\* C36 as stated: whenever a model call is issued, in either mode and after any sequence
\* of earlier calls (including streaming calls that ended in cancellation or error), every
\* tool-call part in the message history sent to the backend has a matching tool-result
\* message later in that history.
C36_AsStated == [][IssuesModelCall => AllAnswered(messages')]_vars

\* the text of a message of the history: its text, or its text parts in order
RECURSIVE PartsText(_)
PartsText(parts) ==
    IF parts = <<>> THEN ""
    ELSE (IF parts[1].type = "text" THEN parts[1].text ELSE "") \o PartsText(Tail(parts))
TextOfMessage(message) ==
    IF IsSome(message.text) THEN Get(message.text) ELSE PartsText(Get(message.parts))

\* the content events of the round in progress, concatenated: a round's events follow the
\* last tool_result event of the call, or begin the call
RECURSIVE RoundContent(_)
RoundContent(evs) ==
    IF evs = <<>> THEN ""
    ELSE LET last == evs[Len(evs)]
         IN  IF last.type = "tool_result" THEN ""
             ELSE RoundContent(SubSeq(evs, 1, Len(evs) - 1))
                  \o (IF last.type = "content" THEN last.content ELSE "")

\* the step of a streaming call appends the round's assistant message
AppendsAssistant ==
    /\ apc \in {"stream", "built"}
    /\ Len(messages') = Len(messages) + 1
    /\ messages'[Len(messages')].role = "assistant"

\* C37: in streaming mode, for every round that ends without cancellation or failure, the
\* text of the assistant message appended to the message history equals the concatenation,
\* in order, of the content events emitted to the caller during that round.
C37_AssistantText ==
    [][AppendsAssistant => TextOfMessage(messages'[Len(messages')]) = RoundContent(events)]_vars

\* a second round, after a tool round, has streamed two text deltas and ended: its
\* assistant message holds both
C37_Witness ==
    /\ apc = "done"
    /\ abortedAt = ""
    /\ modelCalls = 2
    /\ Len(messages) = 4
    /\ messages[4].role = "assistant"
    /\ TextOfMessage(messages[4]) = "hihi"
    /\ RoundContent(events) = "hihi"

\* the positions where a streaming call is suspended on an event it has emitted: on a
\* token_count ("top", and "stream" once a chunk was consumed), on tool_calls ("built")
\* and on tool_result ("result")
SuspendedOnEvent ==
    \/ apc \in {"top", "built", "result"}
    \/ apc = "stream" /\ consumed > 0

ToolResultEntries(log) == Cardinality({i \in 1..Len(log) : log[i].type = "tool_result"})
ToolMessages(history) == Cardinality({i \in 1..Len(history) : history[i].role = "tool"})

\* C38 as stated: at every point where a streaming call is suspended on an emitted event
\* (so also if the consumer stops reading there), the number of tool_result entries in
\* the chat log equals the number of tool-result messages in the message history.
C38_AsStated == SuspendedOnEvent => ToolResultEntries(chatHistory) = ToolMessages(messages)

\* the step is an iteration of the loop over the stream, and the chunk it has pulled
\* carries a text delta
PullsTextDelta ==
    /\ apc = "stream"
    /\ ChunkWaiting
    /\ consumed' # consumed \/ apc' # apc
    /\ IsSome(yielded[consumed + 1].content)
    /\ Get(yielded[consumed + 1].content) # ""

\* C24 as stated: in streaming mode, every text delta the loop has pulled from the
\* transport stream is emitted to the caller as a content event, also when cancellation
\* was requested before the loop processed that delta.
C24_AsStated ==
    [][PullsTextDelta =>
          \E i \in (Len(events) + 1)..Len(events') :
              events'[i] = ContentEvent(Get(yielded[consumed + 1].content))]_vars

\* the step ends a tool execution during which cancellation was requested
ToolCompletes == apc = "exec" /\ abortedAt = "exec" /\ apc' # "exec"

\* the events hold a tool_result event, and only token counts between it and the
\* cancellation notice and done that end them
ResultThenCancelled(evs) ==
    /\ EndsCancelled(evs)
    /\ \E i \in 1..(Len(evs) - 2) :
          /\ evs[i].type = "tool_result"
          /\ \A j \in (i + 1)..(Len(evs) - 2) : evs[j] = TokenCountEvent

\* the step resumes the call suspended on the tool_result event of such an execution
ToolResultTaken == apc = "result" /\ abortedAt = "exec" /\ apc' # "result"

\* C25: in streaming mode, a cancellation requested while a tool is executing does not
\* interrupt it: the step that ends the execution records the tool's result as a
\* tool_result chat entry and emits it as a tool_result event, and the step that resumes
\* the call appends it to the message history as a tool-result message, with neither the
\* cancellation notice nor done emitted yet; when the notice and done are emitted, they
\* follow the tool_result event and the history ends with the tool-result message and
\* entry.
C25_ToolRunsToCompletion ==
    /\ [][ToolCompletes =>
             /\ \E i \in (Len(events) + 1)..Len(events') :
                   /\ events'[i].type = "tool_result"
                   /\ events'[i].toolCall = Some(Head(pending))
                   /\ chatHistory' = Push(chatHistory,
                         ToolResultEntry(Head(pending), Get(events'[i].toolResult)))
             /\ ~CancelObserved(events')
             /\ DoneCount(events') = 0
             /\ apc' = "result"]_vars
    /\ [][ToolResultTaken =>
             /\ messages' = Push(messages,
                   buildToolResultMessage(Head(pending),
                                          chatHistory[Len(chatHistory)].toolResult))
             /\ ~CancelObserved(events')
             /\ DoneCount(events') = 0
             /\ apc' \in {"each", "top"}]_vars
    /\ [](abortedAt = "exec" /\ CancelObserved(events) =>
             /\ ResultThenCancelled(events)
             /\ messages[Len(messages)].role = "tool"
             /\ chatHistory[Len(chatHistory)].type = "tool_result")

\* cancelled while a tool ran: its result is delivered, then the next check cancels
C25_Witness ==
    /\ abortedAt = "exec"
    /\ apc = "done"
    /\ ResultThenCancelled(events)
    /\ messages[Len(messages)].role = "tool"

\* the positions of a streaming call in flight
StreamingPositions == {"top", "stream", "built", "each", "exec", "result"}

\* the start of a streaming call creates a handle that is not cancelled; within the call
\* the handle changes only by being cancelled
HandleCreatedAndKept ==
    /\ (apc \notin StreamingPositions /\ apc' \in StreamingPositions) =>
          abortController' = Some(FALSE)
    /\ (apc \in StreamingPositions /\ apc' \in StreamingPositions) =>
          \/ abortController' = abortController
          \/ abortController = Some(FALSE) /\ abortController' = Some(TRUE)

\* C26: the cancellation handle is null whenever no streaming call is in flight (before
\* the first one, during buffered calls, and after a streaming call has ended by a final
\* answer, the round limit, a cancellation or an error) and is a handle whenever one is;
\* the start of a streaming call creates a fresh handle, not cancelled, which is kept for
\* all rounds of the call, changing only by being cancelled.
C26_HandleScope ==
    /\ []((abortController = None) = (apc \notin StreamingPositions))
    /\ [][HandleCreatedAndKept]_vars

\* a streaming call that ended by a caught error, in its second round
C26_Witness ==
    /\ apc = "done"
    /\ abortController = None
    /\ modelCalls = 2
    /\ ~CancelObserved(events)
    /\ chatHistory[Len(chatHistory)].type = "assistant"
    /\ chatHistory[Len(chatHistory)].content \notin {MaxRoundsNotice, CancelledNotice}
    /\ \E i \in 1..Len(events) :
          events[i].type = "content" /\ events[i].content = chatHistory[Len(chatHistory)].content
    /\ "isStreaming" \notin DOMAIN chatHistory[Len(chatHistory)]

\* the step is a call of abortCurrentOperation while no streaming call is in flight
AbortsNothing == apc \notin StreamingPositions /\ abortedAt' # abortedAt /\ abortedAt' # ""

\* C27: a cancellation request never leaks into a later call: abortCurrentOperation
\* called while no streaming call is in flight changes no state of the agent or the
\* client (and returns); the streaming call that starts next starts not cancelled,
\* whether such a request or a cancelled streaming call preceded it; and a streaming
\* call is cancelled, or observes a cancellation, only after a request made during it.
C27_NoLeak ==
    /\ [][AbortsNothing =>
             UNCHANGED <<unitVars, clientVars, messages, chatHistory, apc, toolRounds,
                         currentResponse, pending, escaped, modelCalls, currentModel,
                         events, accumulatedContent, accumulatedToolCalls, consumed,
                         abortController>>]_vars
    /\ [][apc \notin StreamingPositions /\ apc' \in StreamingPositions => ~Aborted']_vars
    /\ [](apc \in StreamingPositions /\ Aborted => abortedAt \in StreamingPositions)
    /\ [][~CancelObserved(events) /\ CancelObserved(events') =>
             abortedAt \in StreamingPositions]_vars

\* a streaming call that ran to a final answer after a call that left nothing but its
\* user entry (cancelled before its first model call), followed by a request made with no
\* call in flight
C27_Witness ==
    /\ apc = "done"
    /\ abortedAt = "done"
    /\ abortController = None
    /\ Len(chatHistory) = 3
    /\ chatHistory[1].type = "user"
    /\ chatHistory[2].type = "user"
    /\ chatHistory[3].type = "assistant"
    /\ "isStreaming" \in DOMAIN chatHistory[3]
    /\ ~CancelObserved(events)
    /\ events[Len(events)] = DoneEvent

\* the tool-call events of the deltas, in arrival order
RECURSIVE ToolCallEvents(_)
ToolCallEvents(deltas) ==
    IF deltas = <<>> THEN <<>> ELSE Head(deltas).tool_calls \o ToolCallEvents(Tail(deltas))

\* the call id an event carries
EventId(tc) == IF IsSome(tc.id) THEN Get(tc.id) ELSE Undefined

\* the distinct call ids of the events, in first-seen order
RECURSIVE IdsFirstSeen(_)
IdsFirstSeen(tcs) ==
    IF tcs = <<>> THEN <<>>
    ELSE LET before == IdsFirstSeen(SubSeq(tcs, 1, Len(tcs) - 1))
             id == EventId(tcs[Len(tcs)])
         IN  IF \E i \in 1..Len(before) : before[i] = id THEN before ELSE Append(before, id)

\* the argument fragments of the events carrying `id`, concatenated in arrival order
RECURSIVE FragmentsOf(_, _)
FragmentsOf(tcs, id) ==
    IF tcs = <<>> THEN ""
    ELSE (IF EventId(Head(tcs)) = id /\ IsSome(Head(tcs).arguments)
          THEN Get(Head(tcs).arguments) ELSE "")
         \o FragmentsOf(Tail(tcs), id)

\* the name of the first event carrying `id`
FirstNameOf(tcs, id) == tcs[CHOOSE i \in 1..Len(tcs) :
                              EventId(tcs[i]) = id /\ \A j \in 1..(i - 1) : EventId(tcs[j]) # id].name

\* C31: in streaming mode, while a round's stream is consumed and after it has ended,
\* the accumulated tool-call list holds exactly one entry per distinct call id among the
\* events taken so far, in first-seen order, and each entry's argument text is the
\* concatenation, in arrival order, of the argument fragments of all events carrying
\* that id.
C31_Accumulated ==
    apc = "stream" =>
        LET tcs == ToolCallEvents(SubSeq(yielded, 1, consumed))
            ids == IdsFirstSeen(tcs)
        IN  accumulatedToolCalls =
                [k \in 1..Len(ids) |->
                    GrokToolCall(ids[k], FirstNameOf(tcs, ids[k]), FragmentsOf(tcs, ids[k]))]

\* a stream that ended after two events with the same id: one entry, both fragments
C31_Witness ==
    /\ apc = "stream"
    /\ cpc = "done"
    /\ consumed = 2
    /\ Len(ToolCallEvents(yielded)) = 2
    /\ Len(accumulatedToolCalls) = 1
    /\ accumulatedToolCalls[1].arguments = "{\"command\":\"ls\"}{\"command\":\"ls\"}"

\* the text deltas of the deltas, concatenated in arrival order
RECURSIVE TextOf(_)
TextOf(deltas) ==
    IF deltas = <<>> THEN ""
    ELSE (IF IsSome(Head(deltas).content) THEN Get(Head(deltas).content) ELSE "")
         \o TextOf(Tail(deltas))

\* the step is chatStream going from its backoff sleep into the next attempt
RetryBegins == entry = "chatStream" /\ cpc = "sleep" /\ cpc' # "sleep"

\* C33: in chatStream, when an attempt fails with a retryable error after k events were
\* already delivered, those events stay delivered and the next attempt re-issues the
\* whole request: within one call the delivered sequence only grows at its end, the
\* retry starts a new attempt with the same tools, in the same round, with nothing taken
\* back or marked, and the agent loop goes on accumulating: its text and tool calls are
\* those of all events taken in the round, whichever attempt delivered them.
C33_RetryKeepsDelivered ==
    /\ [][(entry = "chatStream" /\ entry' = "chatStream") =>
             /\ IsPrefix(yielded, yielded')
             /\ Len(yielded') <= Len(yielded) + 1]_vars
    /\ [][RetryBegins =>
             /\ cpc' = "try"
             /\ attempt' = attempt + 1
             /\ UNCHANGED <<yielded, tools, searchOptions, accumulatedContent,
                            accumulatedToolCalls, consumed, modelCalls, toolRounds,
                            messages, chatHistory, events>>]_vars
    /\ [](apc = "stream" =>
             /\ consumed <= Len(yielded)
             /\ accumulatedContent = TextOf(SubSeq(yielded, 1, consumed))
             /\ Len(accumulatedToolCalls)
                   = Len(IdsFirstSeen(ToolCallEvents(SubSeq(yielded, 1, consumed)))))

\* one text delta was delivered and accumulated, the stream failed, and the second
\* attempt has delivered the same delta again: the round's text holds it twice
C33_Witness ==
    /\ apc = "stream"
    /\ entry = "chatStream"
    /\ attempt = 1
    /\ Len(sleeps) = 1
    /\ cpc = "stream"
    /\ consumed = 2
    /\ accumulatedContent = "hihi"
    /\ modelCalls = 1

\* an agent call is in flight
InFlight ==
    apc \in {"chat", "tools", "exit", "top", "stream", "built", "each", "exec", "result"}

\* the agent call is over: returned, raised, or its event sequence closed
Ended == apc \in {"returned", "thrown", "done"}

\* C17: every buffered or streaming call issues at most maxToolRounds model calls and
\* runs at most maxToolRounds tool rounds, and, each backend call and each tool
\* execution terminating, the call ends (the streaming call having emitted done), even
\* when the model requests tools in every reply.
C17_BoundedAndEnds ==
    /\ [](modelCalls <= maxToolRounds /\ toolRounds <= maxToolRounds)
    /\ [](apc = "done" => DoneCount(events) = 1)
    /\ (InFlight ~> Ended)

\* a buffered call in which every reply requested tools, stopped by the round limit
C17_Witness ==
    /\ apc = "returned"
    /\ modelCalls = maxToolRounds
    /\ toolRounds = maxToolRounds
    /\ chatHistory[Len(chatHistory)].content = MaxRoundsNotice

\* the step is the catch clause of processUserMessageStream taking a failure of the round
FailureCaught ==
    \/ /\ apc = "stream"
       /\ cpc = "done"
       /\ outcome # None
       /\ outcome[1].kind = "GrokApiError"
       /\ apc' # "stream"
    \/ /\ apc = "built"
       /\ buildAssistantMessageThrows(AccumulatedMessage)
       /\ apc' # "built"

\* the message the claim says is surfaced for the failure being caught
FailureNotice ==
    IF apc = "stream"
    THEN "\n\nAPI Error: " \o JoinText(outcome[1].info[1].message)
    ELSE "\n\nSorry, I encountered an error: " \o JoinText(SyntaxError.message[1])

\* C16 as stated: a failure during a streaming round never escapes; it is surfaced as one
\* final content event carrying the error's message, followed by done.
C16_AsStated ==
    [][FailureCaught =>
          /\ escaped' = None
          /\ apc' = "done"
          /\ events' = events \o <<ContentEvent(FailureNotice), DoneEvent>>]_vars

\* C16, amended: a failure during a streaming round never escapes; it is surfaced as one
\* final content event followed by done, the event carrying the error's message unless
\* cancellation has been requested, and the cancellation notice if it has.
C16_FailureSurfaced ==
    [][FailureCaught =>
          /\ escaped' = None
          /\ apc' = "done"
          /\ events' = events \o <<ContentEvent(IF Aborted THEN CancelledNotice
                                                 ELSE FailureNotice), DoneEvent>>]_vars

\* an authentication failure of the transport, surfaced
C16_Witness ==
    /\ apc = "done"
    /\ escaped = None
    /\ Len(events) >= 2
    /\ events[Len(events) - 1] = ContentEvent("\n\nAPI Error: " \o JoinText(Auth401Message))
    /\ events[Len(events)] = DoneEvent
    /\ chatHistory[Len(chatHistory)].content = "\n\nAPI Error: " \o JoinText(Auth401Message)

(***************************************************************************)
(* SpecDispatch: executeTool applied once to each tool call, and its       *)
(* result converted by buildToolResultMessage                              *)
(***************************************************************************)
\* names that are neither case labels nor prefixed with "mcp__"
UnknownNames == {"nope", ""}
DispatchNames == BuiltinTools \cup McpToolNames \cup UnknownNames
\* toolCall.function.arguments: objects, null, and texts JSON.parse rejects
DispatchArguments == {"{}", "{\"command\":\"ls\"}", "null", "not json", ""}
\* what the collaborators (textEditor, bash, search, ...) resolve with
DispatchResults ==
    {Success(Some("out")), Success(None), Success(Some("")),
     Failure(Some("No such file")), Failure(None), Failure(Some(""))}
\* what a collaborator rejects with
DispatchThrown == {OtherRaw}
\* where a cd run by the bash tool leads
DispatchDirs == {"/repo/src"}
\* what mcpManager.callTool resolves or rejects with
DispatchMcpReplies ==
    {[thrown |-> None, isError |-> FALSE, content |-> <<>>],
     [thrown |-> None, isError |-> FALSE, content |-> <<McpTextItem("remote")>>],
     [thrown |-> None, isError |-> TRUE, content |-> <<>>],
     [thrown |-> None, isError |-> TRUE, content |-> <<McpTextItem("denied")>>],
     [thrown |-> None, isError |-> TRUE,
      content |-> <<McpTextItem("denied"), McpResourceItem("file:///log")>>],
     [thrown |-> None, isError |-> TRUE,
      content |-> <<McpResourceItem("file:///log"), McpTextItem("denied")>>],
     [thrown |-> None, isError |-> TRUE, content |-> <<McpResourceItem("file:///log")>>],
     [thrown |-> Some(OtherRaw), isError |-> FALSE, content |-> <<>>]}

InitDispatch ==
    /\ rawError = OtherRaw
    /\ info = None
    /\ GROK_DEBUG = None
    /\ ClientIdle
    /\ LoopIdle
    /\ LimitIdle
    /\ BashIdle
    /\ ModesIdle
    /\ \E id \in {"a", "call_1"}, name \in DispatchNames, arguments \in DispatchArguments :
          givenCall = GrokToolCall(id, name, arguments)
    /\ toolOutcome = None
    /\ toolMessage = None
    /\ mcpReply = None

\* await this.executeTool(toolCall); the remote server, when the call reaches it, answers
\* with one of McpReplies
Dispatch(Results, Thrown, McpReplies, Dirs) ==
    /\ toolOutcome = None
    /\ \E reply \in McpReplies :
          /\ \E o \in executeTool(givenCall, Results, Thrown, {reply}) : toolOutcome' = Some(o)
          /\ mcpReply' = IF givenCall.name \in McpToolNames /\ ParsesAsJSON(givenCall.arguments)
                         THEN Some(reply)
                         ELSE None
    /\ currentDirectory' \in executeToolDirectories(givenCall, currentDirectory, Dirs)
    /\ UNCHANGED <<classifyVars, givenCall, toolMessage, loggerVars, bashVars, modeVars,
                   limitVars,
                   clientVars,
                   agentVars>>

\* this.buildToolResultMessage(toolCall, result)
Convert ==
    /\ toolOutcome # None
    /\ toolOutcome[1].kind = "return"
    /\ toolMessage = None
    /\ toolMessage' = Some(buildToolResultMessage(givenCall, Get(toolOutcome[1].result)))
    /\ UNCHANGED <<classifyVars, givenCall, toolOutcome, mcpReply, loggerVars, bashVars,
                   modeVars, limitVars, currentDirectory, clientVars, agentVars>>

NextDispatch ==
    \/ Dispatch(DispatchResults, DispatchThrown, DispatchMcpReplies, DispatchDirs)
    \/ Convert

SpecDispatch == InitDispatch /\ [][NextDispatch]_vars

\* the result executeTool returned
ToolResultOf == Get(toolOutcome[1].result)

\* the failure the catch clause of executeTool makes of an error
Captured(error) == Failure(Some("Tool execution error: " \o MessageText(error)))

\* a failure with a message: {success:false, error:<message>}
IsFailureWithMessage(r) ==
    /\ ~r.success
    /\ r.output = None
    /\ IsSome(r.error)
    /\ Get(r.error) # ""

\* C18: executeTool never throws: for every tool call, whatever its name and argument
\* text (text that is not JSON included) and whatever the collaborators and the remote
\* server do, it returns a ToolResult; unparseable arguments, a rejected collaborator,
\* a remote failure and an unknown name each come back as {success:false, error:<message>}.
C18_NeverThrows ==
    toolOutcome # None =>
        /\ toolOutcome[1].kind = "return"
        /\ toolOutcome[1].error = None
        /\ ToolResultOf.success \in BOOLEAN
        /\ ~ParsesAsJSON(givenCall.arguments) => ToolResultOf = Captured(SyntaxError)
        /\ ToolResultOf \notin DispatchResults \cup {Success(Some("remote")), Success(Some("Success"))}
              => IsFailureWithMessage(ToolResultOf)

\* a collaborator rejected and the rejection came back as a failure
C18_Witness ==
    /\ toolOutcome # None
    /\ givenCall.name = "bash"
    /\ givenCall.arguments = "{\"command\":\"ls\"}"
    /\ toolOutcome[1] = ToolReturn(Captured(OtherRaw))

\* C19 as stated: a name that is neither a case label nor prefixed with "mcp__" gives
\* {success:false, error:"Unknown tool: <name>"}, whatever the argument text is.
C19_AsStated ==
    toolOutcome # None /\ givenCall.name \in UnknownNames =>
        toolOutcome[1] = ToolReturn(Failure(Some("Unknown tool: " \o givenCall.name)))

\* C19, amended: a name that is neither a case label nor prefixed with "mcp__" gives
\* {success:false, error:"Unknown tool: <name>"} when the argument text parses as JSON;
\* when it does not, the parse error comes first and the result is
\* {success:false, error:"Tool execution error: <parse error>"}.
C19_UnknownTool ==
    toolOutcome # None /\ givenCall.name \in UnknownNames =>
        toolOutcome[1] =
            ToolReturn(IF ParsesAsJSON(givenCall.arguments)
                       THEN Failure(Some("Unknown tool: " \o givenCall.name))
                       ELSE Captured(SyntaxError))

\* an unknown name with arguments that parse
C19_Witness ==
    /\ toolOutcome # None
    /\ givenCall.name = "nope"
    /\ givenCall.arguments = "{}"
    /\ ToolResultOf.error = Some("Unknown tool: nope")

\* the item is a textual content item
IsTextual(item) == item.type = "text" /\ item.text \notin {None, Some("")}

\* the text of the first textual item among the content items
FirstTextual(content) ==
    LET first == CHOOSE i \in 1..Len(content) :
                     IsTextual(content[i]) /\ \A j \in 1..(i - 1) : ~IsTextual(content[j])
    IN  Get(content[first].text)

\* C29 as stated: when the remote tool server reports an error (isError), the
\* passthrough returns {success:false} with the text of the first textual content item
\* among the returned items as the error message, for every ordering of text and
\* resource items in the returned content.
C29_AsStated ==
    (/\ toolOutcome # None
     /\ mcpReply # None
     /\ mcpReply[1].thrown = None
     /\ mcpReply[1].isError
     /\ \E i \in 1..Len(mcpReply[1].content) : IsTextual(mcpReply[1].content[i]))
        => toolOutcome[1] = ToolReturn(Failure(Some(FirstTextual(mcpReply[1].content))))

\* the output part the claim gives for a ToolResult
ExpectedOutput(r) ==
    IF r.success
    THEN IF r.output = None \/ r.output = Some("")
         THEN [type |-> "text", value |-> "Success"]
         ELSE [type |-> "text", value |-> r.output[1]]
    ELSE IF r.error = None \/ r.error = Some("")
         THEN [type |-> "error-text", value |-> "Error"]
         ELSE [type |-> "error-text", value |-> r.error[1]]

\* C20: buildToolResultMessage maps a ToolResult to one tool message with one
\* tool-result part carrying the call's id and name: success with output X gives
\* {type:text, value:X}, success with absent or empty output gives value "Success",
\* failure with error E gives {type:error-text, value:E}, failure with absent or empty
\* error gives value "Error".
C20_ResultMessage ==
    toolMessage # None =>
        /\ toolMessage[1].role = "tool"
        /\ toolMessage[1].text = None
        /\ toolMessage[1].parts =
              Some(<<[type |-> "tool-result", toolCallId |-> givenCall.id,
                      toolName |-> givenCall.name, output |-> ExpectedOutput(ToolResultOf)]>>)

\* a failure without an error text, converted
C20_Witness ==
    /\ toolMessage # None
    /\ ToolResultOf = Failure(None)
    /\ toolMessage[1].parts[1][1].output = [type |-> "error-text", value |-> "Error"]

(***************************************************************************)
(* SpecClassify: classifyError applied once to each raw error              *)
(***************************************************************************)
InitClassify ==
    /\ \E n \in ErrorNames, c \in ErrorCodes, f \in StatusFields, t \in ErrorTexts :
          rawError = RawError(n, c, f[1], f[2], f[3], t[1], t[2])
    /\ info = None
    /\ GROK_DEBUG = None
    /\ ClientIdle
    /\ AgentIdle

Classify ==
    /\ info = None
    /\ info' = Some(classifyError(rawError))
    /\ UNCHANGED <<rawError, dispatchVars, loggerVars, bashVars, modeVars, limitVars,
                   currentDirectory,
                   clientVars,
                   agentVars>>

NextClassify == Classify

SpecClassify == InitClassify /\ [][NextClassify]_vars

\* The first defined value among status, statusCode and response.status
FirstDefinedStatus(e) ==
    IF e.status # None THEN e.status
    ELSE IF e.statusCode # None THEN e.statusCode
    ELSE e.responseStatus

RetryableStatuses == {429} \cup 500..599
NonRetryableStatuses == {400, 401, 403, 404}
HasStatusIn(e, S) == FirstDefinedStatus(e) # None /\ FirstDefinedStatus(e)[1] \in S

\* C5 as stated: status 429 or 5xx gives retryable=true and status 400, 401, 403
\* or 404 gives retryable=false, whatever the name, code and message are.
C5_AsStated ==
    info # None =>
        /\ HasStatusIn(rawError, RetryableStatuses) => info[1].retryable
        /\ HasStatusIn(rawError, NonRetryableStatuses) => ~info[1].retryable

\* C5 (amended): status 429 or 5xx gives retryable=true whatever the other fields
\* are; status 400, 401, 403 or 404 gives retryable=false when the error matches
\* neither the timeout indicator nor the network signature.
C5_StatusRetryability ==
    info # None =>
        /\ HasStatusIn(rawError, RetryableStatuses) => info[1].retryable
        /\ (HasStatusIn(rawError, NonRetryableStatuses)
              /\ ~isTimeout(rawError) /\ ~isNetwork(rawError)) => ~info[1].retryable

C5_Witness ==
    /\ info # None
    /\ rawError.status = None /\ rawError.statusCode = None
    /\ rawError.responseStatus = Some(404)
    /\ rawError.code = "EPIPE"
    /\ rawError.message = Some(<<"JSON", "parse">>)
    /\ ~info[1].retryable

HasNetworkSignature(e) ==
    \/ e.code \in {"ECONNREFUSED", "ENOTFOUND", "ECONNRESET"}
    \/ Includes(msgOf(e), "fetch failed")

\* C6 as stated: code ECONNREFUSED, ENOTFOUND or ECONNRESET, or a message containing
\* "fetch failed", gives code=network and retryable=true whatever the other fields are.
C6_AsStated ==
    (info # None /\ HasNetworkSignature(rawError)) =>
        (info[1].code = "network" /\ info[1].retryable)

\* C6 (amended): such an error gives code=network and retryable=true unless it also
\* matches the timeout indicator, and then it gives code=timeout and retryable=true.
C6_NetworkSignature ==
    (info # None /\ HasNetworkSignature(rawError)) =>
        /\ info[1].retryable
        /\ info[1].code = (IF isTimeout(rawError) THEN "timeout" ELSE "network")

C6_Witness ==
    /\ info # None
    /\ rawError.code = "ENOTFOUND"
    /\ rawError.status = Some(400)
    /\ rawError.message = Some(<<"JSON", "other">>)
    /\ info[1].code = "network"

\* The result the ordered rule list of the error classifier prescribes
FirstMatch(e) ==
    LET s == FirstDefinedStatus(e)
        m == IF e.message # None THEN e.message[1] ELSE e.str
        has(p) == \E i \in DOMAIN m : m[i] = p
    IN  CASE e.name = "AbortError" \/ e.code = "ECONNABORTED" \/ has("timeout") \/ has("Timeout")
                -> [code |-> "timeout", retryable |-> TRUE]
          [] OTHER -> CASE e.code \in {"ECONNREFUSED", "ENOTFOUND", "ECONNRESET"}
                            \/ has("fetch failed") \/ has("network") \/ has("bad port")
                            \/ has("Cannot connect")
                -> [code |-> "network", retryable |-> TRUE]
          [] OTHER -> CASE s = <<400>> -> [code |-> "bad_request", retryable |-> FALSE]
          [] s = <<401>> -> [code |-> "auth", retryable |-> FALSE]
          [] s = <<403>> -> [code |-> "auth", retryable |-> FALSE]
          [] s = <<404>> -> [code |-> "not_found", retryable |-> FALSE]
          [] s = <<429>> -> [code |-> "rate_limit", retryable |-> TRUE]
          [] OTHER -> CASE s # <<>> /\ s[1] >= 500 -> [code |-> "server", retryable |-> TRUE]
          [] OTHER -> CASE has("JSON") \/ has("Unexpected token") \/ has("parse")
                -> [code |-> "malformed", retryable |-> TRUE]
          [] OTHER -> [code |-> "unknown", retryable |-> FALSE]

\* C7: classifyError applies its rules in one fixed order, the first matching rule
\* decides code and retryable, and the fallback keeps the raw error text as message.
C7_FirstMatchWins ==
    info # None =>
        /\ info[1].code = FirstMatch(rawError).code
        /\ info[1].retryable = FirstMatch(rawError).retryable
        /\ info[1].code = "unknown" =>
              info[1].message = (IF rawError.message # None THEN rawError.message[1]
                                 ELSE rawError.str)

C7_Witness ==
    /\ info # None
    /\ rawError.name = "AbortError"
    /\ rawError.code = "ECONNRESET"
    /\ rawError.status = Some(401)
    /\ rawError.message = Some(<<"parse", "network">>)
    /\ info[1].code = "timeout"

\* C8 as stated: the returned status is the first defined value among status,
\* statusCode and response.status, for every raw error.
C8_AsStated ==
    info # None => info[1].status = FirstDefinedStatus(rawError)

\* C8 (amended): for a raw error classified neither timeout nor network the returned
\* status is the first defined value among status, statusCode and response.status
\* (null when none is present); for one classified timeout or network it is null.
C8_StatusField ==
    info # None =>
        info[1].status = (IF info[1].code \in {"timeout", "network"} THEN None
                          ELSE FirstDefinedStatus(rawError))

C8_Witness ==
    /\ info # None
    /\ rawError.status = None
    /\ rawError.statusCode = Some(503)
    /\ rawError.responseStatus = Some(404)
    /\ info[1].code = "server"
    /\ info[1].status = Some(503)

====
